---- MODULE Spec2Model ----
(***************************************************************************)
(* A model of the cfr-rs solvers: the information-set node (regret         *)
(* matching), the game definitions (Kuhn, Leduc, Dudo) and the             *)
(* exploitability / best-response evaluator.                               *)
(*                                                                         *)
(* f64 values are modelled as exact rationals <<n, d>> in lowest terms     *)
(* with d > 0; rounding, infinities and NaN are outside the model.         *)
(***************************************************************************)
EXTENDS Integers, Sequences, FiniteSets, TLC

VARIABLES
    node,       \* the information-set node under test (solvers/*/node.rs)
    ret,        \* what the last node operation returned
    game,       \* which game the walked state belongs to
    state,      \* the game state reached by with_action from new_root
    payouts,    \* the outcome of the last get_payouts call on `state`
    plies,      \* the number of actions applied to new_root to reach `state`
    table,      \* the frozen strategy handed to the evaluator
    pc,         \* the evaluator's position in compute_exploitability
    rp,         \* rp0 / rp1: the reach probabilities per best responder
    brmap,      \* brmap0 / brmap1: the cached action utilities
    br,         \* br0 / br1: the best-response values from the root
    pure,       \* br_pure_strategies0 / br_pure_strategies1
    ev,         \* ev_0 / ev_1 of compute_exploitability
    expl,       \* the value compute_exploitability returns (or a panic)
    query,      \* the outcome of the last strategy query
    rule,       \* the Rule the hold'em Dealer was built with
    hand_state, \* the HandState the Dealer works on
    update_result, \* what the last Dealer call returned
    nodes,      \* Trainer::nodes of the exact-CFR trainer
    call_stack, \* the activations of Trainer::cfr, the innermost last
    cfr_ret,    \* the utilities the cfr call that ended last returned
    iteration,  \* i of Trainer::train's loop
    train_util, \* util of Trainer::train
    mc_nodes,   \* Trainer::nodes of the MCCFR trainer
    mc_stack,   \* the activations of Trainer::sampling, the innermost last
    mc_ret,     \* the utility the sampling call that ended last returned
    samplings,  \* the number of sampling calls train_impl has completed
    util_sum,   \* util_sum of train_impl
    borrows,    \* the RefCell borrows alive in the MCCFR trainer
    solver,     \* the solver main runs
    loop_kind,  \* which training loop runs
    loop_pc,    \* the training loop's position
    loop_i,     \* i of the training loop
    loop_util,  \* util of the training loop
    epochs_run, \* the number of epochs the training loop has completed
    report,     \* the last average game value the training loop logged
    responder,  \* br_player of the best-response pass followed step by step
    br_stack,   \* the activations of calc_best_response_value, innermost last
    br_ret,     \* the value the calc_best_response_value call that ended last returned
    action_utilities \* the action_utilities map of that pass

vars == <<node, ret, game, state, payouts, plies, table, pc, rp, brmap, br, pure, ev,
          expl, query, rule, hand_state, update_result, nodes, call_stack,
          cfr_ret, iteration, train_util, mc_nodes, mc_stack, mc_ret,
          samplings, util_sum, borrows, solver, loop_kind, loop_pc, loop_i,
          loop_util, epochs_run, report, responder, br_stack, br_ret,
          action_utilities>>

nodeVars == <<node, ret>>
gameVars == <<game, state, payouts, plies>>
evalVars == <<table, pc, rp, brmap, br, pure, ev, expl, query>>
dealerVars == <<rule, hand_state, update_result>>
trainVars == <<nodes, call_stack, cfr_ret, iteration, train_util>>
samplingVars == <<mc_nodes, mc_stack, mc_ret, samplings, util_sum, borrows>>
mainVars == <<solver, loop_kind, loop_pc, loop_i, loop_util, epochs_run, report>>
brVars == <<responder, br_stack, br_ret, action_utilities>>

-----------------------------------------------------------------------------
(* Exact arithmetic standing for f64.                                      *)

Abs(x) == IF x < 0 THEN -x ELSE x

RECURSIVE Gcd(_, _)
Gcd(a, b) == IF b = 0 THEN a ELSE Gcd(b, a % b)

RNorm(n, d) ==
    LET s == IF d < 0 THEN -1 ELSE 1
        g == Gcd(Abs(n), Abs(d))
    IN  <<(s * n) \div g, (s * d) \div g>>

R(n) == <<n, 1>>
RZero == <<0, 1>>
ROne == <<1, 1>>
RAdd(a, b) == RNorm(a[1] * b[2] + b[1] * a[2], a[2] * b[2])
RSub(a, b) == RNorm(a[1] * b[2] - b[1] * a[2], a[2] * b[2])
RMul(a, b) == RNorm(a[1] * b[1], a[2] * b[2])
RDiv(a, b) == RNorm(a[1] * b[2], a[2] * b[1])
RNeg(a) == <<-a[1], a[2]>>
RLe(a, b) == a[1] * b[2] <= b[1] * a[2]
RLt(a, b) == a[1] * b[2] < b[1] * a[2]
RGe(a, b) == RLe(b, a)
RMax(a, b) == IF RLe(a, b) THEN b ELSE a

RECURSIVE RSumSeq(_)
RSumSeq(s) == IF s = <<>> THEN RZero ELSE RAdd(s[1], RSumSeq(Tail(s)))

Range(f) == {f[x] : x \in DOMAIN f}

\* vec![v; n]
Fill(v, n) == [i \in 1..n |-> v]

-----------------------------------------------------------------------------
(* games.rs: PlayerId.                                                     *)

Chance == 2
Players == {0, 1}

\* PlayerId::opponent for the two concrete players.
Opponent(p) == 1 - p

-----------------------------------------------------------------------------
(* solvers/cfr/node.rs and solvers/mccfr_external_sampling/node.rs:        *)
(* the information-set node.  A node is a record of three vectors of the   *)
(* same length (the action list is represented by its length).             *)

MaxActions == 3       \* longest action list of a node under test
MaxRegret == 2        \* regret_sum entries range over -MaxRegret..MaxRegret
MaxStrategySum == 2   \* cap on the total mass accumulated in strategy_sum

\* Node::new
NodeNew(n) ==
    [regret_sum |-> Fill(RZero, n),
     strategy |-> Fill(RZero, n),
     strategy_sum |-> Fill(RZero, n)]

\* regret_sum.iter().filter(|v| **v >= 0.0).sum()
RECURSIVE SumNonNegative(_)
SumNonNegative(s) ==
    IF s = <<>> THEN RZero
    ELSE IF RGe(s[1], RZero) THEN RAdd(s[1], SumNonNegative(Tail(s)))
         ELSE SumNonNegative(Tail(s))

\* to_strategy dividing by the sum of all regrets, the filter forgotten.
to_strategy_unfiltered(n, realization_weight) ==
    LET normalizing_sum == RSumSeq(n.regret_sum)
        actions_len == Len(n.strategy)
        strategy ==
            IF normalizing_sum = RZero
            THEN Fill(RDiv(ROne, R(actions_len)), actions_len)
            ELSE [i \in 1..actions_len |->
                    IF RGe(n.regret_sum[i], RZero)
                    THEN RDiv(n.regret_sum[i], normalizing_sum)
                    ELSE RZero]
    IN  [n EXCEPT
            !.strategy = strategy,
            !.strategy_sum = [i \in 1..actions_len |->
                RAdd(n.strategy_sum[i], RMul(realization_weight, strategy[i]))]]

\* to_strategy adding the strategy to strategy_sum without its weight.
to_strategy_unitWeight(n, realization_weight) ==
    LET normalizing_sum == SumNonNegative(n.regret_sum)
        actions_len == Len(n.strategy)
        strategy ==
            IF normalizing_sum = RZero
            THEN Fill(RDiv(ROne, R(actions_len)), actions_len)
            ELSE [i \in 1..actions_len |->
                    IF RGe(n.regret_sum[i], RZero)
                    THEN RDiv(n.regret_sum[i], normalizing_sum)
                    ELSE RZero]
    IN  [n EXCEPT
            !.strategy = strategy,
            !.strategy_sum = [i \in 1..actions_len |->
                RAdd(n.strategy_sum[i], strategy[i])]]

\* Node::to_strategy of the exact-CFR solver; the returned vector is the
\* strategy field of the result.
to_strategy(n, realization_weight) ==
    LET normalizing_sum == SumNonNegative(n.regret_sum)
        actions_len == Len(n.strategy)
        strategy ==
            IF normalizing_sum = RZero
            THEN Fill(RDiv(ROne, R(actions_len)), actions_len)
            ELSE [i \in 1..actions_len |->
                    IF RGe(n.regret_sum[i], RZero)
                    THEN RDiv(n.regret_sum[i], normalizing_sum)
                    ELSE RZero]
    IN  [n EXCEPT
            !.strategy = strategy,
            !.strategy_sum = [i \in 1..actions_len |->
                RAdd(n.strategy_sum[i], RMul(realization_weight, strategy[i]))]]

\* Node::regret_matching of the MCCFR solver.
regret_matching(n) ==
    LET len == Len(n.regret_sum)
        pos == [i \in 1..len |-> RMax(n.regret_sum[i], RZero)]
        sum == RSumSeq(pos)
    IN  [n EXCEPT !.strategy =
            IF RLe(sum, RZero)
            THEN Fill(RDiv(ROne, R(len)), len)
            ELSE [i \in 1..len |-> RDiv(RMax(n.regret_sum[i], RZero), sum)]]

\* Node::update_strategy_sum of the MCCFR solver.
update_strategy_sum(n) ==
    [n EXCEPT !.strategy_sum =
        [i \in 1..Len(n.strategy) |-> RAdd(n.strategy_sum[i], n.strategy[i])]]

\* Node::to_average_strategy (both solvers).
to_average_strategy(n) ==
    LET normalizing_sum == RSumSeq(n.strategy_sum)
        actions_len == Len(n.strategy)
    IN  IF normalizing_sum = RZero
        THEN Fill(RDiv(ROne, R(actions_len)), actions_len)
        ELSE [i \in 1..actions_len |-> RDiv(n.strategy_sum[i], normalizing_sum)]

NoRet == [op |-> "none", v |-> <<>>]

RegretValues == {R(k) : k \in -MaxRegret..MaxRegret}
RealizationWeights == {RZero, <<1, 2>>, ROne}

\* A node as the trainers hold it: built by Node::new, regret accumulated.
NodeInit ==
    /\ \E n \in 1..MaxActions :
         \E rs \in [1..n -> RegretValues] :
            node = [NodeNew(n) EXCEPT !.regret_sum = rs]
    /\ ret = NoRet

NodeToStrategy ==
    \E w \in RealizationWeights :
        /\ RLe(RAdd(RSumSeq(node.strategy_sum), w), R(MaxStrategySum))
        /\ node' = to_strategy(node, w)
        /\ ret' = [op |-> "to_strategy", v |-> node'.strategy]
        /\ UNCHANGED <<gameVars, evalVars, dealerVars, trainVars, samplingVars, mainVars, brVars>>

NodeRegretMatching ==
    /\ node' = regret_matching(node)
    /\ ret' = [op |-> "regret_matching", v |-> node'.strategy]
    /\ UNCHANGED <<gameVars, evalVars, dealerVars, trainVars, samplingVars, mainVars, brVars>>

NodeUpdateStrategySum ==
    /\ RLe(RAdd(RSumSeq(node.strategy_sum), RSumSeq(node.strategy)),
           R(MaxStrategySum))
    /\ node' = update_strategy_sum(node)
    /\ ret' = NoRet
    /\ UNCHANGED <<gameVars, evalVars, dealerVars, trainVars, samplingVars, mainVars, brVars>>

\* The result of the call before, when that call was the same query and
\* nothing was trained in between.
PrevOf(op) == IF ret.op = op THEN <<ret.v>> ELSE <<>>

NodeToAverageStrategy ==
    /\ ret' = [op |-> "to_average_strategy", v |-> to_average_strategy(node),
               prev |-> PrevOf("to_average_strategy")]
    /\ UNCHANGED <<node, gameVars, evalVars, dealerVars, trainVars, samplingVars, mainVars, brVars>>

\* a get_strategy that asks the node for its current strategy
TrainerGetStrategy_current(n) ==
    [node |-> to_strategy(n, ROne), v |-> to_strategy(n, ROne).strategy]

\* impl Strategy for Trainer, get_strategy(&self) on the node of the
\* information set: the node after the call and the vector returned
TrainerGetStrategy(n) == [node |-> n, v |-> to_average_strategy(n)]

NodeGetStrategy ==
    /\ node' = TrainerGetStrategy(node).node
    /\ ret' = [op |-> "get_strategy", v |-> TrainerGetStrategy(node).v,
               prev |-> PrevOf("get_strategy")]
    /\ UNCHANGED <<gameVars, evalVars, dealerVars, trainVars, samplingVars, mainVars, brVars>>

NodeNext ==
    \/ NodeToStrategy
    \/ NodeRegretMatching
    \/ NodeUpdateStrategySum
    \/ NodeToAverageStrategy
    \/ NodeGetStrategy

-----------------------------------------------------------------------------
(* games/kuhn.rs.  Cards are their enum discriminants; an action is a      *)
(* record whose kind is the variant; Option<KuhnAction> is "None" or the   *)
(* kind of the action.                                                     *)

Arr2(a, b) == [i \in Players |-> IF i = 0 THEN a ELSE b]

Jack == 0
Queen == 1
King == 2
KuhnCards == <<Jack, Queen, King>>

Pass == [kind |-> "Pass"]
Bet == [kind |-> "Bet"]
ChanceDealCards(c0, c1) == [kind |-> "ChanceDealCards", cards |-> Arr2(c0, c1)]

Panic == [tag |-> "panic"]
Ok(v) == [tag |-> "ok", v |-> v]
NoPayouts == [tag |-> "none"]

\* Kuhn::new_root
KuhnNewRoot ==
    [next_player_id |-> Chance,
     actions |-> Arr2("None", "None"),
     cards |-> Arr2(Jack, Jack),
     pot |-> 2]

\* An information set that carries both players' cards.
KuhnToInfoSet_bothCards(s) ==
    [player_id |-> s.next_player_id,
     card |-> s.cards,
     actions |-> s.actions]

\* impl From<&KuhnState> for KuhnInfoSet / Kuhn::to_info_set
KuhnToInfoSet(s) ==
    [player_id |-> s.next_player_id,
     card |-> s.cards[s.next_player_id],
     actions |-> s.actions]

\* Kuhn::list_legal_actions
KuhnListLegalActions(s) == <<Pass, Bet>>

\* cards.iter().permutations(2), in itertools' lexicographic order of positions
KuhnPairs ==
    <<<<1, 2>>, <<1, 3>>, <<2, 1>>, <<2, 3>>, <<3, 1>>, <<3, 2>>>>

\* Kuhn::list_legal_chance_actions: <<action, probability>> pairs
KuhnListLegalChanceActions(s) ==
    [k \in 1..Len(KuhnPairs) |->
        <<ChanceDealCards(KuhnCards[KuhnPairs[k][1]], KuhnCards[KuhnPairs[k][2]]),
          RDiv(ROne, R(Len(KuhnPairs)))>>]

\* Kuhn::with_action
KuhnWithAction(s, action) ==
    CASE action.kind = "Pass" ->
            [s EXCEPT !.actions[s.next_player_id] = "Pass",
                      !.next_player_id = Opponent(s.next_player_id)]
      [] action.kind = "Bet" ->
            [s EXCEPT !.actions[s.next_player_id] = "Bet",
                      !.next_player_id = Opponent(s.next_player_id),
                      !.pot = s.pot + 1]
      [] action.kind = "ChanceDealCards" ->
            [s EXCEPT !.next_player_id = 0,
                      !.cards = action.cards]

\* Kuhn::is_terminal
KuhnIsTerminal(s) ==
    IF s.next_player_id = Chance THEN FALSE
    ELSE IF /\ s.actions[s.next_player_id] = "Bet"
            /\ s.actions[Opponent(s.next_player_id)] = "Pass"
         THEN TRUE
         ELSE \/ \A i \in Players : s.actions[i] = "Pass"
              \/ \A i \in Players : s.actions[i] = "Bet"

\* Kuhn::get_payouts: Ok([f64; 2]) or the panic of the catch-all match arm
KuhnGetPayouts(s) ==
    IF s.actions[0] = "Bet" /\ s.actions[1] = "Pass"
    THEN Ok(Arr2(R(1), R(-1)))
    ELSE LET win == s.cards[0] > s.cards[1]
         IN  CASE s.actions[0] = "Pass" /\ s.actions[1] = "Bet" ->
                    Ok(Arr2(R(-1), R(1)))
               [] s.actions[0] = "Bet" /\ s.actions[1] = "Pass" ->
                    Ok(Arr2(R(1), R(-1)))
               [] s.actions[0] = "Pass" /\ s.actions[1] = "Pass" ->
                    IF win THEN Ok(Arr2(R(1), R(-1))) ELSE Ok(Arr2(R(-1), R(1)))
               [] s.actions[0] = "Bet" /\ s.actions[1] = "Bet" ->
                    IF win THEN Ok(Arr2(R(2), R(-2))) ELSE Ok(Arr2(R(-2), R(2)))
               [] OTHER -> Panic

\* Kuhn::get_node_player_id
KuhnGetNodePlayerId(s) == s.next_player_id

-----------------------------------------------------------------------------
(* games/leduc.rs.  Option<T> is <<>> (None) or <<x>> (Some(x)); a Card is *)
(* its rank, ordered Jack < Queen < King as the derived Ord orders them.   *)

LeducJack == 0
LeducQueen == 1
LeducKing == 2

\* Rank::VALUES
RankValues == <<LeducKing, LeducQueen, LeducJack>>

\* Card::get_all: two cards for each rank
RECURSIVE CardGetAllFrom(_)
CardGetAllFrom(k) ==
    IF k > Len(RankValues) THEN <<>>
    ELSE <<RankValues[k], RankValues[k]>> \o CardGetAllFrom(k + 1)

CardGetAll == CardGetAllFrom(1)

Check == [kind |-> "Check"]
Raise == [kind |-> "Raise"]
Call == [kind |-> "Call"]
Fold == [kind |-> "Fold"]
LeducDealCards(h0, h1, c) ==
    [kind |-> "ChanceDealCards", hole_cards |-> Arr2(h0, h1), community_card |-> c]

\* LeducAction::VALUES
LeducActionValues == <<Check, Raise, Call, Fold>>

Preflop == [kind |-> "Preflop"]
Flop == [kind |-> "Flop"]
ShowDown == [kind |-> "ShowDown"]
Folded(pid) == [kind |-> "Folded", pid |-> pid]

\* LeducRound::next (called on Preflop and Flop only)
LeducRoundNext(r) == IF r.kind = "Preflop" THEN Flop ELSE ShowDown

\* Leduc::new_root
LeducNewRoot ==
    [next_player_id |-> Chance,
     round |-> Preflop,
     actions |-> <<>>,
     hole_cards |-> <<>>,
     community_card |-> <<>>,
     bets |-> Arr2(1, 1),
     raise_count |-> 0]

\* impl From<&LeducState> for LeducInfoSet / Leduc::to_info_set
LeducToInfoSet(s) ==
    [hole_card |-> s.hole_cards[1][s.next_player_id],
     community_card |-> s.community_card,
     actions |-> s.actions]

\* LeducState::is_valid_action
\* is_valid_action with the Call and Fold comparisons the other way round
LeducIsValidAction_reversed(s, action) ==
    CASE action.kind = "Check" -> s.bets[0] = s.bets[1]
      [] action.kind = "Raise" -> s.raise_count < 2
      [] action.kind = "Call" ->
            s.bets[s.next_player_id] > s.bets[Opponent(s.next_player_id)]
      [] action.kind = "Fold" ->
            s.bets[s.next_player_id] > s.bets[Opponent(s.next_player_id)]
      [] action.kind = "ChanceDealCards" ->
            s.round = Preflop /\ s.hole_cards = <<>>

\* Raise is allowed up to three times in a round.
LeducIsValidAction_threeRaises(s, action) ==
    CASE action.kind = "Check" -> s.bets[0] = s.bets[1]
      [] action.kind = "Raise" -> s.raise_count < 3
      [] action.kind = "Call" ->
            s.bets[s.next_player_id] < s.bets[Opponent(s.next_player_id)]
      [] action.kind = "Fold" ->
            s.bets[s.next_player_id] < s.bets[Opponent(s.next_player_id)]
      [] action.kind = "ChanceDealCards" ->
            s.round = Preflop /\ s.hole_cards = <<>>

LeducIsValidAction(s, action) ==
    CASE action.kind = "Check" -> s.bets[0] = s.bets[1]
      [] action.kind = "Raise" -> s.raise_count < 2
      [] action.kind = "Call" ->
            s.bets[s.next_player_id] < s.bets[Opponent(s.next_player_id)]
      [] action.kind = "Fold" ->
            s.bets[s.next_player_id] < s.bets[Opponent(s.next_player_id)]
      [] action.kind = "ChanceDealCards" ->
            s.round = Preflop /\ s.hole_cards = <<>>

\* LeducState::raise_amount (called on Preflop and Flop only)
LeducRaiseAmount(s) == IF s.round.kind = "Preflop" THEN 2 ELSE 4

\* LeducState::update, on a valid action
LeducUpdate(s, action) ==
    IF action.kind = "ChanceDealCards"
    THEN [s EXCEPT !.hole_cards = <<action.hole_cards>>,
                   !.community_card = <<action.community_card>>,
                   !.next_player_id = 0]
    ELSE LET p == s.next_player_id
             o == Opponent(s.next_player_id)
             go_to_next ==
                \/ action.kind = "Check" /\ p = 1
                \/ action.kind = "Call"
             s1 == CASE action.kind = "Raise" ->
                          [s EXCEPT !.raise_count = s.raise_count + 1,
                                    !.bets[p] = s.bets[o] + LeducRaiseAmount(s)]
                     [] action.kind = "Call" ->
                          [s EXCEPT !.bets[p] = s.bets[o]]
                     [] action.kind = "Fold" ->
                          [s EXCEPT !.round = Folded(p)]
                     [] OTHER -> s
             s2 == IF go_to_next
                   THEN [s1 EXCEPT !.round = LeducRoundNext(s1.round),
                                   !.raise_count = 0,
                                   !.next_player_id = 0]
                   ELSE [s1 EXCEPT !.next_player_id = o]
         IN  [s2 EXCEPT !.actions = Append(s1.actions, action)]

\* Leduc::with_action
LeducWithAction(s, action) == LeducUpdate(s, action)

\* LeducState::calc_hand_rank: pair? | higher-rank (2 bits) | lower-rank (2 bits)
CalcHandRank(c0, c1) ==
    LET hi == IF c0 >= c1 THEN c0 ELSE c1
        lo == IF c0 >= c1 THEN c1 ELSE c0
        pair == IF hi = lo THEN 1 ELSE 0
    IN  (pair * 4 + hi) * 4 + lo

\* Leduc::is_terminal
LeducIsTerminal(s) == s.round.kind \in {"Folded", "ShowDown"}

\* get_payouts paying the winner the winner's own bet.
LeducGetPayouts_winnerBet(s) ==
    CASE s.round.kind = "Folded" ->
            LET loser == s.round.pid
                winner == Opponent(s.round.pid)
            IN  Ok([i \in Players |->
                    IF i = winner THEN R(s.bets[winner]) ELSE R(-s.bets[loser])])
      [] s.round.kind = "ShowDown" ->
            LET p == CalcHandRank(s.hole_cards[1][0], s.community_card[1])
                o == CalcHandRank(s.hole_cards[1][1], s.community_card[1])
                winner == IF p > o THEN 0 ELSE 1
                loser == IF p > o THEN 1 ELSE 0
            IN  IF p = o THEN Ok(Arr2(RZero, RZero))
                ELSE Ok([i \in Players |->
                        IF i = winner THEN R(s.bets[winner]) ELSE R(-s.bets[loser])])
      [] OTHER -> Panic

\* Leduc::get_payouts: Ok([f64; 2]), or the panic of the Preflop / Flop arms
\* (and of debug_assert!(is_terminal) in a debug build)
LeducGetPayouts(s) ==
    CASE s.round.kind = "Folded" ->
            LET loser == s.round.pid
                winner == Opponent(s.round.pid)
            IN  Ok([i \in Players |->
                    IF i = winner THEN R(s.bets[loser]) ELSE R(-s.bets[loser])])
      [] s.round.kind = "ShowDown" ->
            LET p == CalcHandRank(s.hole_cards[1][0], s.community_card[1])
                o == CalcHandRank(s.hole_cards[1][1], s.community_card[1])
                winner == IF p > o THEN 0 ELSE 1
                loser == IF p > o THEN 1 ELSE 0
            IN  IF p = o THEN Ok(Arr2(RZero, RZero))
                ELSE Ok([i \in Players |->
                        IF i = winner THEN R(s.bets[loser]) ELSE R(-s.bets[loser])])
      [] OTHER -> Panic

\* Leduc::get_node_player_id
LeducGetNodePlayerId(s) == s.next_player_id

\* Leduc::list_legal_actions
LeducListLegalActions(s) ==
    LET Valid(a) == LeducIsValidAction(s, a)
    IN  SelectSeq(LeducActionValues, Valid)

\* count_permutations(n, r)
RECURSIVE CountPermutations(_, _)
CountPermutations(n, r) ==
    IF r = 0 THEN 1 ELSE n * CountPermutations(n - 1, r - 1)

\* s without its k-th element
RemoveAt(s, k) == SubSeq(s, 1, k - 1) \o SubSeq(s, k + 1, Len(s))

\* The k-th (from 0) of all_cards.iter().permutations(3), which itertools
\* yields in lexicographic order of positions.
LeducPermutation(k) ==
    LET all == CardGetAll
        n == Len(all)
        i1 == (k \div ((n - 1) * (n - 2))) + 1
        r1 == RemoveAt(all, i1)
        i2 == ((k % ((n - 1) * (n - 2))) \div (n - 2)) + 1
        r2 == RemoveAt(r1, i2)
        i3 == (k % (n - 2)) + 1
    IN  <<all[i1], r1[i2], r2[i3]>>

\* Leduc::create_legal_chance_actions / Leduc::list_legal_chance_actions
LeducListLegalChanceActions(s) ==
    LET len == CountPermutations(Len(CardGetAll), 3)
    IN  [k \in 1..len |->
            LET cards == LeducPermutation(k - 1)
            IN  <<LeducDealCards(cards[1], cards[2], cards[3]),
                  RDiv(ROne, R(len))>>]

-----------------------------------------------------------------------------
(* games/dudo.rs.  A RollResult is its count array, indexed 0..5.          *)

DiceFaces == 6
Faces == 0..(DiceFaces - 1)

Claim(count, rank) == [kind |-> "Claim", count |-> count, rank |-> rank]
Dudo == [kind |-> "Dudo"]
ChanceRollDices(r0, r1) == [kind |-> "ChanceRollDices", rolls |-> Arr2(r0, r1)]

\* Claim::normalized_count
NormalizedCount(c) == IF c.rank = 0 THEN c.count * 2 ELSE c.count

\* impl Ord for Claim: a > b
ClaimGt(a, b) ==
    IF NormalizedCount(a) # NormalizedCount(b)
    THEN NormalizedCount(a) > NormalizedCount(b)
    ELSE a.rank > b.rank

\* RollResult::new_none
RollNewNone == [d \in Faces |-> -1]

\* RollResult::new with a single die showing `face`
RollOne(face) == [d \in Faces |-> IF d = face THEN 1 ELSE 0]

\* count_dice with the wild ones left out
CountDice_noWild(roll, dice) == roll[dice]

\* RollResult::count_dice
CountDice(roll, dice) ==
    IF dice = 0 THEN roll[0] ELSE roll[0] + roll[dice]

\* DudoState::new_root
DudoNewRoot ==
    [round |-> 0,
     node_player_id |-> Chance,
     prev_winner |-> 0,
     action_history |-> <<>>,
     player_rolls |-> Arr2(RollNewNone, RollNewNone),
     dice_count |-> Arr2(1, 1)]

\* DudoState::is_terminal
DudoIsTerminal(s) == \E i \in Players : s.dice_count[i] = 0

\* DudoState::get_payouts past its debug_assert!(is_terminal)
DudoGetPayouts(s) ==
    Ok([i \in Players |-> IF s.dice_count[i] = 0 THEN R(-1) ELSE R(1)])

\* DudoState::get_node_player_id
DudoGetNodePlayerId(s) == s.node_player_id

\* DudoState::list_legal_chance_actions
DudoListLegalChanceActions(s) ==
    LET num_actions == DiceFaces * DiceFaces
    IN  [k \in 1..num_actions |->
            <<ChanceRollDices(RollOne((k - 1) \div DiceFaces),
                              RollOne((k - 1) % DiceFaces)),
              RDiv(ROne, R(num_actions))>>]

\* DudoState::current_claim: Option<Claim>
DudoCurrentClaim(s) ==
    IF s.action_history = <<>> THEN <<>>
    ELSE LET last == s.action_history[Len(s.action_history)]
         IN  IF last.kind = "Claim" THEN <<last>> ELSE <<>>

\* list_legal_actions whose same-count claims start at the standing rank
DudoListLegalActions_sameRank(s) ==
    LET count_max == s.dice_count[0] + s.dice_count[1]
        last_claim == DudoCurrentClaim(s)
        rank_start == IF last_claim # <<>> THEN last_claim[1].rank ELSE 0
        normalized_count ==
            IF last_claim # <<>> THEN NormalizedCount(last_claim[1]) ELSE 0
        dudo == IF s.action_history # <<>> THEN <<Dudo>> ELSE <<>>
        same == IF normalized_count > 0 /\ normalized_count <= count_max
                   /\ rank_start < DiceFaces
                THEN [k \in 1..(DiceFaces - rank_start) |->
                        Claim(normalized_count, rank_start + k - 1)]
                ELSE <<>>
        count_start == (normalized_count \div 2) + 1
        ones == IF count_start <= count_max
                THEN [k \in 1..(count_max + 1 - count_start) |->
                        Claim(count_start + k - 1, 0)]
                ELSE <<>>
        per_rank == IF normalized_count + 1 <= count_max
                    THEN count_max - normalized_count ELSE 0
        others == [k \in 1..((DiceFaces - 1) * per_rank) |->
                    Claim(normalized_count + 1 + ((k - 1) % per_rank),
                          1 + ((k - 1) \div per_rank))]
    IN  dudo \o same \o ones \o others

\* DudoState::list_legal_actions
DudoListLegalActions(s) ==
    LET count_max == s.dice_count[0] + s.dice_count[1]
        last_claim == DudoCurrentClaim(s)
        rank_start == IF last_claim # <<>> THEN last_claim[1].rank + 1 ELSE 0
        normalized_count ==
            IF last_claim # <<>> THEN NormalizedCount(last_claim[1]) ELSE 0
        dudo == IF s.action_history # <<>> THEN <<Dudo>> ELSE <<>>
        \* same count higher rank
        same == IF normalized_count > 0 /\ normalized_count <= count_max
                   /\ rank_start < DiceFaces
                THEN [k \in 1..(DiceFaces - rank_start) |->
                        Claim(normalized_count, rank_start + k - 1)]
                ELSE <<>>
        \* higher count, rank == one
        count_start == (normalized_count \div 2) + 1
        ones == IF count_start <= count_max
                THEN [k \in 1..(count_max + 1 - count_start) |->
                        Claim(count_start + k - 1, 0)]
                ELSE <<>>
        \* higher count, excludes one
        per_rank == IF normalized_count + 1 <= count_max
                    THEN count_max - normalized_count ELSE 0
        others == [k \in 1..((DiceFaces - 1) * per_rank) |->
                    Claim(normalized_count + 1 + ((k - 1) % per_rank),
                          1 + ((k - 1) \div per_rank))]
    IN  dudo \o same \o ones \o others

\* DudoState::opponent_player_id: the opponent of the node's player, whatever
\* the argument
DudoOpponentPlayerId(s, player_id) == 1 - s.node_player_id

\* DudoState::update_chance
DudoUpdateChance(s, rolls) ==
    [s EXCEPT !.player_rolls = rolls, !.node_player_id = s.prev_winner]

\* DudoState::update_claim
DudoUpdateClaim(s, claim) ==
    [s EXCEPT !.node_player_id = DudoOpponentPlayerId(s, s.node_player_id),
              !.action_history = Append(s.action_history, claim)]

Max(a, b) == IF a >= b THEN a ELSE b

\* DudoState::update_dudo
DudoUpdateDudo(s) ==
    LET challenger == s.node_player_id
        challenged == DudoOpponentPlayerId(s, s.node_player_id)
        challenged_claim == DudoCurrentClaim(s)[1]
        actual_dice_count ==
            CountDice(s.player_rolls[0], challenged_claim.rank)
            + CountDice(s.player_rolls[1], challenged_claim.rank)
        claimed_dice_count == challenged_claim.count
        loser == IF actual_dice_count >= claimed_dice_count
                 THEN challenger ELSE challenged
        left ==
            IF actual_dice_count = claimed_dice_count
            THEN s.dice_count[loser] - 1
            ELSE IF actual_dice_count > claimed_dice_count
            THEN Max(0, s.dice_count[loser] - (actual_dice_count - claimed_dice_count))
            ELSE Max(0, s.dice_count[loser] - (claimed_dice_count - actual_dice_count))
    IN  [s EXCEPT !.dice_count[loser] = left,
                  !.prev_winner = DudoOpponentPlayerId(s, loser),
                  !.action_history = <<>>,
                  !.round = s.round + 1]

\* DudoState::update / DudoState::with_action
DudoWithAction(s, action) ==
    CASE action.kind = "Claim" -> DudoUpdateClaim(s, action)
      [] action.kind = "Dudo" -> DudoUpdateDudo(s)
      [] action.kind = "ChanceRollDices" -> DudoUpdateChance(s, action.rolls)

-----------------------------------------------------------------------------
(* DudoInfoSet::from.  uid is a u64, kept as <<top, mid, low>>: its top 4  *)
(* bits and two limbs of 30 bits, so that bits shifted past the top are     *)
(* lost as in the program.                                                  *)

TopBits == 4          \* 4 + 30 + 30: the 64 bits of a u64
LimbBits == 30
UidClaims == 12       \* claims packed into uid, 5 bits each
ClaimBits == 5
DieBits == 3
RoundBits == 1
UidZero == <<0, 0, 0>>

\* uid << k for k < 30
Shl(uid, k) ==
    <<(uid[1] * (2 ^ k) + (uid[2] \div (2 ^ (LimbBits - k)))) % (2 ^ TopBits),
      (uid[2] % (2 ^ (LimbBits - k))) * (2 ^ k)
        + (uid[3] \div (2 ^ (LimbBits - k))),
      (uid[3] % (2 ^ (LimbBits - k))) * (2 ^ k)>>

\* (uid << k) | bits for bits < 2 ^ k: the bits fill the k low zeros
ShlOr(uid, k, bits) ==
    [Shl(uid, k) EXCEPT ![3] = @ + bits]

\* The bits of the i-th entry of the history (counted from 0), or Panic
\* where an assertion or todo!() stops the conversion.
DudoClaimBits(action_history, i) ==
    IF i + 1 > Len(action_history) THEN Ok(0)
    ELSE IF action_history[i + 1].kind # "Claim" THEN Panic
    ELSE IF ~(action_history[i + 1].count > 0) THEN Panic
    ELSE IF ~(action_history[i + 1].count <= 2) THEN Panic
    ELSE IF ~(action_history[i + 1].rank >= 0) THEN Panic
    ELSE IF ~(action_history[i + 1].rank < 6) THEN Panic
    ELSE IF ~(action_history[i + 1].count * 8 + action_history[i + 1].rank
                <= 31) THEN Panic
    ELSE Ok(action_history[i + 1].count * 8 + action_history[i + 1].rank)

RECURSIVE DudoUidClaims(_, _, _)
RECURSIVE DudoUidPush(_, _, _, _)
\* for i in 0..12 { uid = (uid << 5) | bits }
DudoUidClaims(action_history, i, uid) ==
    IF i = UidClaims THEN Ok(uid)
    ELSE DudoUidPush(action_history, i, uid, DudoClaimBits(action_history, i))

DudoUidPush(action_history, i, uid, bits) ==
    IF bits = Panic THEN Panic
    ELSE DudoUidClaims(action_history, i + 1, ShlOr(uid, ClaimBits, bits.v))

\* the first face whose count is 1, if any
DudoFirstDie(roll) ==
    IF \E d \in Faces : roll[d] = 1
    THEN <<CHOOSE d \in Faces :
            roll[d] = 1 /\ \A e \in Faces : roll[e] = 1 => d <= e>>
    ELSE <<>>

\* uid after the dice loop
DudoUidDie(uid, die) ==
    IF die = <<>> THEN uid ELSE ShlOr(uid, DieBits, die[1])

\* the rest of the conversion, once the claims are packed
DudoInfoSetOf(s, packed) ==
    IF packed = Panic THEN Panic
    ELSE IF ~(s.round <= 1) THEN Panic
    ELSE [uid |-> ShlOr(DudoUidDie(packed.v,
                            DudoFirstDie(s.player_rolls[s.node_player_id])),
                        RoundBits, s.round),
          round |-> s.round,
          next_player_id |-> s.node_player_id,
          action_history |-> s.action_history,
          player_roll |-> s.player_rolls[s.node_player_id],
          dice_count |-> s.dice_count]

\* impl From<&DudoState> for DudoInfoSet
DudoToInfoSet(s) ==
    IF s.node_player_id = Chance THEN Panic
    ELSE IF ~(Len(s.action_history) <= 12) THEN Panic
    ELSE DudoInfoSetOf(s,
            DudoUidClaims(s.action_history, 0, UidZero))

-----------------------------------------------------------------------------
(* games.rs: the Game trait, dispatched on the game's name.                *)

NewRoot(g) ==
    CASE g = "kuhn" -> KuhnNewRoot
      [] g = "leduc" -> LeducNewRoot
      [] g = "dudo" -> DudoNewRoot

ToInfoSet(g, s) ==
    CASE g = "kuhn" -> KuhnToInfoSet(s)
      [] g = "leduc" -> LeducToInfoSet(s)
      [] g = "dudo" -> DudoToInfoSet(s)

IsTerminal(g, s) ==
    CASE g = "kuhn" -> KuhnIsTerminal(s)
      [] g = "leduc" -> LeducIsTerminal(s)
      [] g = "dudo" -> DudoIsTerminal(s)

GetPayouts(g, s) ==
    CASE g = "kuhn" -> KuhnGetPayouts(s)
      [] g = "leduc" -> LeducGetPayouts(s)
      [] g = "dudo" -> DudoGetPayouts(s)

GetNodePlayerId(g, s) ==
    CASE g = "kuhn" -> KuhnGetNodePlayerId(s)
      [] g = "leduc" -> LeducGetNodePlayerId(s)
      [] g = "dudo" -> DudoGetNodePlayerId(s)

WithAction(g, s, a) ==
    CASE g = "kuhn" -> KuhnWithAction(s, a)
      [] g = "leduc" -> LeducWithAction(s, a)
      [] g = "dudo" -> DudoWithAction(s, a)

ListLegalActions(g, s) ==
    CASE g = "kuhn" -> KuhnListLegalActions(s)
      [] g = "leduc" -> LeducListLegalActions(s)
      [] g = "dudo" -> DudoListLegalActions(s)

ListLegalChanceActions(g, s) ==
    CASE g = "kuhn" -> KuhnListLegalChanceActions(s)
      [] g = "leduc" -> LeducListLegalChanceActions(s)
      [] g = "dudo" -> DudoListLegalChanceActions(s)

\* The legal actions at s, chance actions without their probabilities.
LegalMoves(g, s) ==
    IF GetNodePlayerId(g, s) = Chance
    THEN {ap[1] : ap \in Range(ListLegalChanceActions(g, s))}
    ELSE Range(ListLegalActions(g, s))

\* The states with_action reaches from new_root over legal actions.
RECURSIVE ReachFrom(_, _, _)
ReachFrom(g, seen, frontier) ==
    IF frontier = {} THEN seen
    ELSE LET next == UNION {{WithAction(g, s, a) : a \in LegalMoves(g, s)} :
                            s \in {t \in frontier : ~IsTerminal(g, t)}}
         IN  ReachFrom(g, seen \cup frontier, next \ (seen \cup frontier))

KuhnStates == ReachFrom("kuhn", {}, {KuhnNewRoot})
LeducStates == ReachFrom("leduc", {}, {LeducNewRoot})

IsDecision(g, s) == ~IsTerminal(g, s) /\ GetNodePlayerId(g, s) # Chance

KuhnInfoSets == {KuhnToInfoSet(s) : s \in {t \in KuhnStates : IsDecision("kuhn", t)}}

-----------------------------------------------------------------------------
(* eval.rs: the Strategy trait and the best-response evaluator.  A        *)
(* strategy is [impl |-> "HashMap", map |-> f] for a raw InfoSet-to-       *)
(* distribution table or [impl |-> "Trainer", nodes |-> f] for an exact-   *)
(* CFR trainer, f a function whose domain is the set of keys present.  A   *)
(* call returns a record tagged "ok" (or "some" / "none" for an Option) or *)
(* a record tagged "panic"; a loop threads such a record through its       *)
(* iterations and stops at the first panic.  Vectors are indexed from 1.   *)

IsPanic(x) == x.tag = "panic"
Some(v) == [tag |-> "some", v |-> v]
None == [tag |-> "none"]

HashMapStrategy(map) == [impl |-> "HashMap", map |-> map]
TrainerStrategy(ns) == [impl |-> "Trainer", nodes |-> ns]

\* HashMap::insert
MapInsert(m, k, v) == IF k \in DOMAIN m THEN [m EXCEPT ![k] = v] ELSE m @@ (k :> v)

\* impl Strategy for HashMap<InfoSet, Vec<f64>> and impl Strategy for Trainer:
\* both unwrap() the lookup
get_strategy(st, info_set) ==
    CASE st.impl = "HashMap" ->
            IF info_set \in DOMAIN st.map THEN Some(st.map[info_set]) ELSE Panic
      [] st.impl = "Trainer" ->
            IF info_set \in DOMAIN st.nodes
            THEN Some(to_average_strategy(st.nodes[info_set]))
            ELSE Panic

\* the match of safe_get_strategy on the result r of get_strategy
SafeGetMatch(r, actions_len) ==
    CASE r.tag = "some" -> Ok(r.v)
      [] r.tag = "none" -> Ok(Fill(RDiv(ROne, R(actions_len)), actions_len))
      [] OTHER -> r

\* Strategy::safe_get_strategy
safe_get_strategy(st, actions_len, info_set) ==
    SafeGetMatch(get_strategy(st, info_set), actions_len)

\* the fold of Iterator::max_by: the later of two equal elements is kept
RECURSIVE MaxByFrom(_, _, _)
MaxByFrom(values, i, best) ==
    IF i > Len(values) THEN best
    ELSE MaxByFrom(values, i + 1, IF RLe(values[best], values[i]) THEN i ELSE best)

\* the fold keeping the earlier of two equal elements
max_index_first(values) ==
    CHOOSE i \in 1..Len(values) :
        /\ \A j \in 1..Len(values) : RLe(values[j], values[i])
        /\ \A j \in 1..(i - 1) : RLt(values[j], values[i])

\* the index of the least element
max_index_min(values) ==
    CHOOSE i \in 1..Len(values) : \A j \in 1..Len(values) : RLe(values[i], values[j])

\* max_index
max_index(values) == MaxByFrom(values, 2, 1)

OneHot(index, n) == [i \in 1..n |-> IF i = index THEN ROne ELSE RZero]

\* the pure strategy that plays the first action everywhere
best_response_utils_to_pure_strategy_first(values) ==
    [info_set \in DOMAIN values |-> OneHot(1, Len(values[info_set]))]

\* best_response_utils_to_pure_strategy
best_response_utils_to_pure_strategy(values) ==
    [info_set \in DOMAIN values |->
        OneHot(max_index(values[info_set]), Len(values[info_set]))]

\* ReachProbabilities::insert
RPInsert(reach, s, reach_probability) ==
    IF s \in DOMAIN reach
    THEN [reach EXCEPT ![s] = RAdd(@, reach_probability)]
    ELSE reach @@ (s :> RAdd(RZero, reach_probability))

\* reach_probabilities.entry(info_set).or_default().insert(state, probability)
RPEntryInsert(m, info_set, s, reach_probability) ==
    MapInsert(m, info_set,
              RPInsert(IF info_set \in DOMAIN m THEN m[info_set] ELSE <<>>,
                       s, reach_probability))

\* The entries of a map in the order an iteration visits them.
RECURSIVE MapEntries(_)
MapEntries(m) ==
    IF DOMAIN m = {} THEN <<>>
    ELSE LET k == CHOOSE x \in DOMAIN m : TRUE
         IN  <<<<k, m[k]>>>> \o MapEntries([x \in DOMAIN m \ {k} |-> m[x]])

\* actions paired with the probabilities of the distribution strategy_ary
Weighted(actions, strategy_ary) ==
    IF IsPanic(strategy_ary) THEN strategy_ary
    ELSE Ok([k \in 1..Len(actions) |-> <<actions[k], strategy_ary.v[k]>>])

\* the legal actions at an information set paired with the probabilities
\* safe_get_strategy gives them
StrategyMovesOf(st, actions, info_set) ==
    Weighted(actions, safe_get_strategy(st, Len(actions), info_set))

\* actions each taken with the same probability
Unweighted_uniform(actions) ==
    Ok([k \in 1..Len(actions) |-> <<actions[k], RDiv(ROne, R(Len(actions)))>>])

\* actions whose choice leaves the reach probability as it is
Unweighted(actions) == Ok([k \in 1..Len(actions) |-> <<actions[k], ROne>>])

StrategyMoves(st, g, s) == StrategyMovesOf(st, ListLegalActions(g, s), ToInfoSet(g, s))

RECURSIVE calc_reach_probabilities(_, _, _, _, _, _)
RECURSIVE CalcReachLoop(_, _, _, _, _, _, _, _)

\* The for loops of calc_reach_probabilities over <<action, factor>> pairs;
\* acc is the map so far.
CalcReachLoop(br_player_id, st, g, s, reach_probability, moves, i, acc) ==
    IF IsPanic(moves) THEN moves
    ELSE IF IsPanic(acc) \/ i > Len(moves.v) THEN acc
    ELSE CalcReachLoop(br_player_id, st, g, s, reach_probability, moves, i + 1,
            calc_reach_probabilities(br_player_id, st, g,
                WithAction(g, s, moves.v[i][1]),
                RMul(reach_probability, moves.v[i][2]), acc.v))

\* calc_reach_probabilities: Ok(the map after the call) or a panic
calc_reach_probabilities(br_player_id, st, g, s, reach_probability, m) ==
    IF IsTerminal(g, s) THEN Ok(m)
    ELSE IF GetNodePlayerId(g, s) = Chance
    THEN CalcReachLoop(br_player_id, st, g, s, reach_probability,
                       Ok(ListLegalChanceActions(g, s)), 1, Ok(m))
    ELSE IF GetNodePlayerId(g, s) = br_player_id
    THEN CalcReachLoop(br_player_id, st, g, s, reach_probability,
                       Unweighted(ListLegalActions(g, s)),
                       1, Ok(RPEntryInsert(m, ToInfoSet(g, s), s, reach_probability)))
    ELSE CalcReachLoop(br_player_id, st, g, s, reach_probability,
                       StrategyMoves(st, g, s), 1, Ok(m))

BrOk(v, au) == [tag |-> "ok", v |-> v, au |-> au]

\* util += r.v, the weight left out
BrAccumulate_unweighted(util, prob, r) ==
    IF IsPanic(r) THEN r ELSE BrOk(RAdd(util, r.v), r.au)

\* util += prob * r.v, r the result of a recursive call
BrAccumulate(util, prob, r) ==
    IF IsPanic(r) THEN r ELSE BrOk(RAdd(util, RMul(prob, r.v)), r.au)

\* act_utils[act_i] = act_util
BrSetActUtil(act_utils, r) ==
    IF IsPanic(r) THEN r ELSE BrOk(Append(act_utils, r.v), r.au)

\* action_utilities.insert(info_set, act_utils)
BrInsert(info_set, r) ==
    IF IsPanic(r) THEN r ELSE BrOk(<<>>, MapInsert(r.au, info_set, r.v))

\* get_payouts(state)[player.index()]
PayoutOf(p, player) == IF IsPanic(p) THEN p ELSE Ok(p.v[player])

BrPayoutOf(p, player, au) == IF IsPanic(p) THEN p ELSE BrOk(p.v[player], au)

RECURSIVE calc_best_response_value(_, _, _, _, _, _)
RECURSIVE BrSumLoop(_, _, _, _, _, _, _, _)
RECURSIVE BrSiblingLoop(_, _, _, _, _, _, _, _)
RECURSIVE BrActionLoop(_, _, _, _, _, _, _, _)

\* node_util += prob * util over <<action, prob>> pairs (chance and opponent
\* nodes); acc holds node_util and the action_utilities map so far
BrSumLoop(rpm, br_player, st, g, s, moves, i, acc) ==
    IF IsPanic(moves) THEN moves
    ELSE IF IsPanic(acc) \/ i > Len(moves.v) THEN acc
    ELSE BrSumLoop(rpm, br_player, st, g, s, moves, i + 1,
            BrAccumulate(acc.v, moves.v[i][2],
                calc_best_response_value(acc.au, rpm, br_player, st, g,
                                         WithAction(g, s, moves.v[i][1]))))

\* act_util += state_reach_prob * util over the states sharing the info set
BrSiblingLoop(rpm, br_player, st, g, act, sibs, j, acc) ==
    IF IsPanic(acc) \/ j > Len(sibs) THEN acc
    ELSE BrSiblingLoop(rpm, br_player, st, g, act, sibs, j + 1,
            BrAccumulate(acc.v, sibs[j][2],
                calc_best_response_value(acc.au, rpm, br_player, st, g,
                                         WithAction(g, sibs[j][1], act))))

\* the loop over the actions of an information set; acc holds act_utils
BrActionLoop(rpm, br_player, st, g, info_set, actions, act_i, acc) ==
    IF IsPanic(acc) \/ act_i > Len(actions) THEN acc
    ELSE IF info_set \notin DOMAIN rpm THEN Panic
    ELSE BrActionLoop(rpm, br_player, st, g, info_set, actions, act_i + 1,
            BrSetActUtil(acc.v,
                BrSiblingLoop(rpm, br_player, st, g, actions[act_i],
                              MapEntries(rpm[info_set]), 1, BrOk(RZero, acc.au))))

\* if !action_utilities.contains_key(&info_set) { ... }
BrActionUtilities(au, rpm, br_player, st, g, info_set, actions) ==
    IF info_set \in DOMAIN au THEN BrOk(<<>>, au)
    ELSE BrInsert(info_set,
            BrActionLoop(rpm, br_player, st, g, info_set, actions, 1, BrOk(<<>>, au)))

\* follow the action max_index picks from action_utilities[info_set]
BrFollow(r, rpm, br_player, st, g, s, info_set, actions) ==
    IF IsPanic(r) THEN r
    ELSE calc_best_response_value(r.au, rpm, br_player, st, g,
            WithAction(g, s, actions[max_index(r.au[info_set])]))

\* calc_best_response_value: the value and the action_utilities map after the
\* call, or a panic
calc_best_response_value(au, rpm, br_player, st, g, s) ==
    IF IsTerminal(g, s) THEN BrPayoutOf(GetPayouts(g, s), br_player, au)
    ELSE IF GetNodePlayerId(g, s) = Chance
    THEN BrSumLoop(rpm, br_player, st, g, s, Ok(ListLegalChanceActions(g, s)),
                   1, BrOk(RZero, au))
    ELSE IF GetNodePlayerId(g, s) = br_player
    THEN BrFollow(BrActionUtilities(au, rpm, br_player, st, g, ToInfoSet(g, s),
                                    ListLegalActions(g, s)),
                  rpm, br_player, st, g, s, ToInfoSet(g, s), ListLegalActions(g, s))
    ELSE BrSumLoop(rpm, br_player, st, g, s, StrategyMoves(st, g, s),
                   1, BrOk(RZero, au))

\* node_util += prob * r.v, r the result of a recursive call
EvAccumulate(util, prob, r) ==
    IF IsPanic(r) THEN r ELSE Ok(RAdd(util, RMul(prob, r.v)))

RECURSIVE calc_expected_value(_, _, _, _, _)
RECURSIVE EvLoop(_, _, _, _, _, _, _, _)

\* node_util += prob * action_util over <<action, prob>> pairs
EvLoop(player_id, strategy0, strategy1, g, s, moves, i, acc) ==
    IF IsPanic(moves) THEN moves
    ELSE IF IsPanic(acc) \/ i > Len(moves.v) THEN acc
    ELSE EvLoop(player_id, strategy0, strategy1, g, s, moves, i + 1,
            EvAccumulate(acc.v, moves.v[i][2],
                calc_expected_value(player_id, strategy0, strategy1, g,
                                    WithAction(g, s, moves.v[i][1]))))

\* calc_expected_value
calc_expected_value(player_id, strategy0, strategy1, g, s) ==
    IF IsTerminal(g, s) THEN PayoutOf(GetPayouts(g, s), player_id)
    ELSE IF GetNodePlayerId(g, s) = Chance
    THEN EvLoop(player_id, strategy0, strategy1, g, s,
                Ok(ListLegalChanceActions(g, s)), 1, Ok(RZero))
    ELSE EvLoop(player_id, strategy0, strategy1, g, s,
                StrategyMoves(IF GetNodePlayerId(g, s) = 0 THEN strategy0
                              ELSE strategy1, g, s),
                1, Ok(RZero))

\* the results of two calls made one after the other
Both(r0, r1) ==
    IF IsPanic(r0) THEN r0 ELSE IF IsPanic(r1) THEN r1 ELSE Ok(Arr2(r0, r1))

-----------------------------------------------------------------------------
(* Plays of the three games: a state is advanced from new_root by          *)
(* with_action over the listed legal actions, and get_payouts is called on *)
(* the state reached.                                                      *)

GamesInit ==
    /\ game \in {"kuhn", "leduc", "dudo"}
    /\ state = NewRoot(game)
    /\ payouts = NoPayouts
    /\ plies = 0

KuhnDeal ==
    /\ game = "kuhn"
    /\ ~KuhnIsTerminal(state)
    /\ KuhnGetNodePlayerId(state) = Chance
    /\ \E ap \in Range(KuhnListLegalChanceActions(state)) :
            state' = KuhnWithAction(state, ap[1])
    /\ payouts' = NoPayouts
    /\ plies' = plies + 1
    /\ UNCHANGED <<game, nodeVars, evalVars, dealerVars, trainVars, samplingVars, mainVars, brVars>>

KuhnAct ==
    /\ game = "kuhn"
    /\ ~KuhnIsTerminal(state)
    /\ KuhnGetNodePlayerId(state) # Chance
    /\ \E a \in Range(KuhnListLegalActions(state)) :
            state' = KuhnWithAction(state, a)
    /\ payouts' = NoPayouts
    /\ plies' = plies + 1
    /\ UNCHANGED <<game, nodeVars, evalVars, dealerVars, trainVars, samplingVars, mainVars, brVars>>

KuhnPayouts ==
    /\ game = "kuhn"
    /\ payouts' = KuhnGetPayouts(state)
    /\ UNCHANGED <<game, state, plies, nodeVars, evalVars, dealerVars, trainVars, samplingVars, mainVars, brVars>>

LeducDeal ==
    /\ game = "leduc"
    /\ ~LeducIsTerminal(state)
    /\ LeducGetNodePlayerId(state) = Chance
    /\ \E ap \in Range(LeducListLegalChanceActions(state)) :
            state' = LeducWithAction(state, ap[1])
    /\ payouts' = NoPayouts
    /\ plies' = plies + 1
    /\ UNCHANGED <<game, nodeVars, evalVars, dealerVars, trainVars, samplingVars, mainVars, brVars>>

LeducAct ==
    /\ game = "leduc"
    /\ ~LeducIsTerminal(state)
    /\ LeducGetNodePlayerId(state) # Chance
    /\ \E a \in Range(LeducListLegalActions(state)) :
            state' = LeducWithAction(state, a)
    /\ payouts' = NoPayouts
    /\ plies' = plies + 1
    /\ UNCHANGED <<game, nodeVars, evalVars, dealerVars, trainVars, samplingVars, mainVars, brVars>>

LeducPayouts ==
    /\ game = "leduc"
    /\ payouts' = LeducGetPayouts(state)
    /\ UNCHANGED <<game, state, plies, nodeVars, evalVars, dealerVars, trainVars, samplingVars, mainVars, brVars>>

DudoRoll ==
    /\ game = "dudo"
    /\ ~DudoIsTerminal(state)
    /\ DudoGetNodePlayerId(state) = Chance
    /\ \E ap \in Range(DudoListLegalChanceActions(state)) :
            state' = DudoWithAction(state, ap[1])
    /\ payouts' = NoPayouts
    /\ plies' = plies + 1
    /\ UNCHANGED <<game, nodeVars, evalVars, dealerVars, trainVars, samplingVars, mainVars, brVars>>

DudoAct ==
    /\ game = "dudo"
    /\ ~DudoIsTerminal(state)
    /\ DudoGetNodePlayerId(state) # Chance
    /\ \E a \in Range(DudoListLegalActions(state)) :
            state' = DudoWithAction(state, a)
    /\ payouts' = NoPayouts
    /\ plies' = plies + 1
    /\ UNCHANGED <<game, nodeVars, evalVars, dealerVars, trainVars, samplingVars, mainVars, brVars>>

\* On a non-terminal state a debug build stops at debug_assert!(is_terminal)
\* and a release build returns the vector.
DudoPayouts ==
    /\ game = "dudo"
    /\ \/ payouts' = DudoGetPayouts(state)
       \/ ~DudoIsTerminal(state) /\ payouts' = Panic
    /\ UNCHANGED <<game, state, plies, nodeVars, evalVars, dealerVars, trainVars, samplingVars, mainVars, brVars>>

GamesNext ==
    \/ KuhnDeal \/ KuhnAct \/ KuhnPayouts
    \/ LeducDeal \/ LeducAct \/ LeducPayouts
    \/ DudoRoll \/ DudoAct \/ DudoPayouts

-----------------------------------------------------------------------------
(* Evaluator runs on Kuhn poker.  The strategy under evaluation is a raw   *)
(* table that differs from a constant table at up to MaxDeviations         *)
(* information sets, such a table with one information set left out, a     *)
(* trainer that has visited nothing, or a trainer with a fresh node for     *)
(* every information set.                                                   *)

MaxDeviations == 1    \* information sets at which a table leaves its base

EvalGame == "kuhn"

\* the distribution over <<Pass, Bet>> that bets with probability p
BetWith(p) == <<RSub(ROne, p), p>>

BaseProbs == {RZero, <<1, 2>>}
GridProbs == {RZero, <<1, 2>>, ROne}

\* the subsets of S with at most n elements
RECURSIVE SubsetsUpTo(_, _)
SubsetsUpTo(S, n) ==
    IF n = 0 THEN {{}}
    ELSE LET P == SubsetsUpTo(S, n - 1)
         IN  P \cup {D \cup {x} : D \in P, x \in S}

CompleteTables ==
    {[i \in KuhnInfoSets |-> IF i \in x[3] THEN BetWith(x[2]) ELSE BetWith(x[1])] :
        x \in BaseProbs \X GridProbs \X SubsetsUpTo(KuhnInfoSets, MaxDeviations)}

IncompleteTables ==
    {[i \in KuhnInfoSets \ {j} |-> BetWith(<<1, 2>>)] : j \in KuhnInfoSets}
        \cup {<<>>}

EvalStrategies ==
    {HashMapStrategy(t) : t \in CompleteTables}
        \cup {HashMapStrategy(t) : t \in IncompleteTables}
        \cup {TrainerStrategy(<<>>),
              TrainerStrategy([i \in KuhnInfoSets |-> NodeNew(2)])}

EvalInit ==
    /\ table \in EvalStrategies
    /\ pc = "idle"
    /\ rp = <<>> /\ brmap = <<>> /\ br = <<>> /\ pure = <<>> /\ ev = <<>>
    /\ expl = <<>>
    /\ query = <<>>

\* the outcome of the two reach-probability passes
SetReach(r) ==
    IF IsPanic(r) THEN pc' = "panicked" /\ rp' = rp
    ELSE pc' = "reach" /\ rp' = Arr2(r.v[0].v, r.v[1].v)

\* compute_exploitability, lines 290-294
CalcReachProbabilities ==
    /\ pc = "idle"
    /\ SetReach(Both(calc_reach_probabilities(0, table, EvalGame, NewRoot(EvalGame),
                                              ROne, <<>>),
                     calc_reach_probabilities(1, table, EvalGame, NewRoot(EvalGame),
                                              ROne, <<>>)))
    /\ UNCHANGED <<table, brmap, br, pure, ev, expl, query, nodeVars, gameVars, dealerVars, trainVars, samplingVars, mainVars, brVars>>

\* the outcome of the two best-response passes
SetBestResponse(r) ==
    IF IsPanic(r) THEN pc' = "panicked" /\ brmap' = brmap /\ br' = br
    ELSE /\ pc' = "br"
         /\ brmap' = Arr2(r.v[0].au, r.v[1].au)
         /\ br' = Arr2(r.v[0].v, r.v[1].v)

\* compute_exploitability, lines 295-315
CalcBestResponseValues ==
    /\ pc = "reach"
    /\ SetBestResponse(
            Both(calc_best_response_value(<<>>, rp[0], 0, table, EvalGame,
                                          NewRoot(EvalGame)),
                 calc_best_response_value(<<>>, rp[1], 1, table, EvalGame,
                                          NewRoot(EvalGame))))
    /\ UNCHANGED <<table, rp, pure, ev, expl, query, nodeVars, gameVars, dealerVars, trainVars, samplingVars, mainVars, brVars>>

\* compute_exploitability, lines 317-318
ToPureStrategies ==
    /\ pc = "br"
    /\ pure' = Arr2(best_response_utils_to_pure_strategy(brmap[0]),
                    best_response_utils_to_pure_strategy(brmap[1]))
    /\ pc' = "pure"
    /\ UNCHANGED <<table, rp, brmap, br, ev, expl, query, nodeVars, gameVars, dealerVars, trainVars, samplingVars, mainVars, brVars>>

\* the outcome of the two expected-value walks
SetExpectedValues(r) ==
    IF IsPanic(r) THEN pc' = "panicked" /\ ev' = ev
    ELSE pc' = "ev" /\ ev' = Arr2(r.v[0].v, r.v[1].v)

\* compute_exploitability, lines 339-343
CalcExpectedValues ==
    /\ pc = "pure"
    /\ SetExpectedValues(
            Both(calc_expected_value(1, table, HashMapStrategy(pure[1]), EvalGame,
                                     NewRoot(EvalGame)),
                 calc_expected_value(0, HashMapStrategy(pure[0]), table, EvalGame,
                                     NewRoot(EvalGame))))
    /\ UNCHANGED <<table, rp, brmap, br, pure, expl, query, nodeVars, gameVars, dealerVars, trainVars, samplingVars, mainVars, brVars>>

\* compute_exploitability, lines 345-349
Exploitability ==
    /\ pc = "ev"
    /\ expl' = RDiv(RAdd(ev[0], ev[1]), R(2))
    /\ pc' = IF RGe(expl', RZero) THEN "done" ELSE "assert_failed"
    /\ UNCHANGED <<table, rp, brmap, br, pure, ev, query, nodeVars, gameVars, dealerVars, trainVars, samplingVars, mainVars, brVars>>

\* strategy.get_strategy(&info_set)
GetStrategy ==
    /\ \E info_set \in KuhnInfoSets :
            query' = [op |-> "get_strategy", info_set |-> info_set,
                      r |-> get_strategy(table, info_set)]
    /\ UNCHANGED <<table, pc, rp, brmap, br, pure, ev, expl, nodeVars, gameVars, dealerVars, trainVars, samplingVars, mainVars, brVars>>

\* strategy.safe_get_strategy(actions_len, &info_set)
SafeGetStrategy ==
    /\ \E info_set \in KuhnInfoSets :
            query' = [op |-> "safe_get_strategy", info_set |-> info_set,
                      actions_len |-> Len(KuhnListLegalActions(<<>>)),
                      r |-> safe_get_strategy(table, Len(KuhnListLegalActions(<<>>)),
                                              info_set)]
    /\ UNCHANGED <<table, pc, rp, brmap, br, pure, ev, expl, nodeVars, gameVars, dealerVars, trainVars, samplingVars, mainVars, brVars>>

EvalNext ==
    \/ CalcReachProbabilities
    \/ CalcBestResponseValues
    \/ ToPureStrategies
    \/ CalcExpectedValues
    \/ Exploitability

StrategyNext ==
    \/ GetStrategy
    \/ SafeGetStrategy

-----------------------------------------------------------------------------
(* The heads-up no-limit hold'em dealer (games/texas_holdem).  Cards are   *)
(* outside the model: community_cards is the number of community cards     *)
(* and hole cards are left out, the betting logic reads nothing else.      *)

\* The stacks a Rule is built with (deeper than the big blind, so that both
\* blinds can be posted and the hand has a decision) and the amounts raised to.
Stacks == {150, 1000}
RaiseTos == {0, 300, 500, 1000, 2000}

Rounds == <<"Preflop", "Flop", "Turn", "River">>
\* `round as usize`, counted from 1 as the vectors of the model are.
RoundAsUsize(round) == CHOOSE i \in 1..Len(Rounds) : Rounds[i] = round

RoundNext(round) ==
    CASE round = "Preflop" -> Ok("Flop")
      [] round = "Flop" -> Ok("Turn")
      [] round = "Turn" -> Ok("River")
      [] round = "River" -> Panic

new_2p_nolimit_reverse_blinds(stack) ==
    [stack |-> stack, player_cnt |-> 2, blinds |-> <<100, 50>>,
     first_player |-> <<1, 0, 0, 0>>]

IntMax(S) == CHOOSE m \in S : \A x \in S : x <= m

get_big_blind(r) == IntMax({0} \cup Range(r.blinds))

RaiseTo(x) == [kind |-> "RaiseTo", raise_to |-> x]

PlayerStateDefault ==
    [stack |-> 0, bet |-> 0, took_action |-> FALSE, folded |-> FALSE]

HandStateDefault ==
    [next_player |-> 0, last_action |-> None, round |-> "Preflop",
     round_state |-> [min_raise_to |-> 0, bet_cnt |-> 0],
     community_cards |-> 0, players |-> <<>>]

PlayerIds(s) == DOMAIN s.players

is_all_in(p) == p.bet = p.stack
agreed(p, maxBet) == p.bet = maxBet \/ is_all_in(p)

max_bet(s) == IntMax({0} \cup {s.players[i].bet : i \in PlayerIds(s)})
pot(s) == s.players[0].bet + s.players[1].bet

everyone_all_in(s) ==
    \A i \in PlayerIds(s) : ~s.players[i].folded => is_all_in(s.players[i])

everyone_agreed_betsOnly(s) ==
    \A i \in PlayerIds(s) :
        ~s.players[i].folded => agreed(s.players[i], max_bet(s))

everyone_agreed(s) ==
    \A i \in PlayerIds(s) :
        ~s.players[i].folded =>
            s.players[i].took_action /\ agreed(s.players[i], max_bet(s))

everyone_folded(s) ==
    Cardinality({i \in PlayerIds(s) : ~s.players[i].folded}) = 1

round_is_finished(s) == everyone_agreed(s)

hand_is_finished(s, rif) ==
    IF s.round = "River" /\ rif THEN TRUE
    ELSE IF everyone_all_in(s) /\ s.community_cards = 5 THEN TRUE
    ELSE everyone_folded(s)

Keep == [tag |-> "Keep"]
NextRound(round) == [tag |-> "NextRound", round |-> round]
AllIn == [tag |-> "AllIn"]
NextHand == [tag |-> "NextHand"]

ClampRaise_noCap(s, current, raise_to) ==
    IF raise_to < s.round_state.min_raise_to
       /\ raise_to < s.players[current].stack
    THEN s.round_state.min_raise_to ELSE raise_to

\* The amount a RaiseTo(raise_to) is applied with.
ClampRaise(s, current, raise_to) ==
    LET low == IF raise_to < s.round_state.min_raise_to
                  /\ raise_to < s.players[current].stack
               THEN s.round_state.min_raise_to ELSE raise_to
    IN  IF low >= s.players[current].stack
        THEN s.players[current].stack ELSE low

ApplyRaise_ownBet(s, current, raise_to) ==
    [s EXCEPT !.round_state =
                  [min_raise_to |->
                       raise_to + (raise_to - s.players[current].bet),
                   bet_cnt |-> s.round_state.bet_cnt + 1],
              !.players[current].bet = raise_to]

ApplyRaise(s, current, raise_to) ==
    [s EXCEPT !.round_state =
                  [min_raise_to |-> raise_to + (raise_to - max_bet(s)),
                   bet_cnt |-> s.round_state.bet_cnt + 1],
              !.players[current].bet = raise_to]

ApplyAction(s, current, act) ==
    CASE act.kind = "Fold" -> [s EXCEPT !.players[current].folded = TRUE]
      [] act.kind = "Call" -> [s EXCEPT !.players[current].bet = max_bet(s)]
      [] act.kind = "RaiseTo" ->
            ApplyRaise(s, current, ClampRaise(s, current, act.raise_to))

UpdateResultOf(s) ==
    IF hand_is_finished(s, round_is_finished(s)) THEN Ok(NextHand)
    ELSE IF everyone_all_in(s) THEN Ok(AllIn)
    ELSE IF round_is_finished(s)
         THEN IF IsPanic(RoundNext(s.round)) THEN Panic
              ELSE Ok(NextRound(RoundNext(s.round).v))
    ELSE Ok(Keep)

AdvancePlayer(r, s) ==
    IF Cardinality(PlayerIds(s)) # 2 THEN s
    ELSE [s EXCEPT !.next_player = (s.next_player + 1) % r.player_cnt]

\* Dealer::update: the hand state it leaves and the result it returns.
DealerUpdate(r, s, act) ==
    [s |-> AdvancePlayer(r,
               ApplyAction([s EXCEPT !.players[s.next_player].took_action = TRUE,
                                     !.last_action = Some(act)],
                           s.next_player, act)),
     v |-> IF Cardinality(PlayerIds(s)) # 2 THEN Panic
           ELSE UpdateResultOf(
                    AdvancePlayer(r,
                        ApplyAction([s EXCEPT !.players[s.next_player].took_action = TRUE,
                                              !.last_action = Some(act)],
                                    s.next_player, act)))]

ResetTookAction(s) ==
    [s EXCEPT !.players =
        [i \in PlayerIds(s) |->
            IF ~(is_all_in(s.players[i]) \/ s.players[i].folded)
            THEN [s.players[i] EXCEPT !.took_action = FALSE]
            ELSE s.players[i]]]

Resize(players, n) ==
    [i \in 0..(n - 1) |->
        IF i \in DOMAIN players THEN players[i] ELSE PlayerStateDefault]

InitPreflop(r, s) ==
    [s EXCEPT !.last_action = None,
              !.players =
                  [i \in 0..(r.player_cnt - 1) |->
                      [Resize(s.players, r.player_cnt)[i] EXCEPT
                          !.bet = IF i + 1 \in DOMAIN r.blinds
                                  THEN r.blinds[i + 1] ELSE @,
                          !.stack = r.stack,
                          !.folded = FALSE]],
              !.round_state = [min_raise_to |-> get_big_blind(r) * 2,
                               bet_cnt |-> 0]]

InitPostflop(r, s) ==
    [s EXCEPT !.round_state =
        [min_raise_to |-> get_big_blind(r) + s.players[s.next_player].bet,
         bet_cnt |-> 0]]

\* Dealer::init_round
DealerInitRound(r, s, round) ==
    IF round = "Preflop"
    THEN InitPreflop(r, [ResetTookAction(s) EXCEPT
                            !.round = round,
                            !.next_player = r.first_player[RoundAsUsize(round)]])
    ELSE InitPostflop(r, [ResetTookAction(s) EXCEPT
                            !.round = round,
                            !.next_player = r.first_player[RoundAsUsize(round)]])

\* Dealer::deal_cards, as far as the number of community cards goes.
DealCards(s) ==
    CASE s.round = "Preflop" -> s
      [] s.round = "Flop" -> [s EXCEPT !.community_cards = @ + 3]
      [] s.round \in {"Turn", "River"} -> [s EXCEPT !.community_cards = @ + 1]

DealerInitRoundAndDealCards(r, s, round) ==
    DealCards(DealerInitRound(r, s, round))

NoCall == [op |-> "none"]

\* Dealer::new(Rule::new_2p_nolimit_reverse_blinds(stack)), a default
\* HandState and init_round_and_deal_cards(Preflop) on it.
DealerInit ==
    /\ rule \in {new_2p_nolimit_reverse_blinds(stack) : stack \in Stacks}
    /\ hand_state = DealerInitRoundAndDealCards(rule, HandStateDefault, "Preflop")
    /\ update_result = NoCall

HandGoesOn ==
    \/ update_result.op = "init_round"
    \/ update_result = NoCall
    \/ (update_result.op = "update" /\ update_result.v = Ok(Keep))

Actions == {Fold, Call} \cup {RaiseTo(x) : x \in RaiseTos}

Update ==
    /\ HandGoesOn
    /\ \E act \in Actions :
        /\ hand_state' = DealerUpdate(rule, hand_state, act).s
        /\ update_result' = [op |-> "update", act |-> act,
                             v |-> DealerUpdate(rule, hand_state, act).v]
    /\ UNCHANGED <<rule, nodeVars, gameVars, evalVars, trainVars, samplingVars, mainVars, brVars>>

\* The caller's step after NextRound(round).
InitRoundAndDealCards ==
    /\ update_result.op = "update"
    /\ update_result.v.tag = "ok"
    /\ update_result.v.v.tag = "NextRound"
    /\ hand_state' = DealerInitRoundAndDealCards(rule, hand_state,
                                                update_result.v.v.round)
    /\ update_result' = [op |-> "init_round"]
    /\ UNCHANGED <<rule, nodeVars, gameVars, evalVars, trainVars, samplingVars, mainVars, brVars>>

\* The caller's step after AllIn or NextHand: the next hand starts from a
\* default HandState.
InitHand ==
    /\ update_result.op = "update"
    /\ update_result.v.tag = "ok"
    /\ update_result.v.v.tag \in {"AllIn", "NextHand"}
    /\ hand_state' = DealerInitRoundAndDealCards(rule, HandStateDefault, "Preflop")
    /\ update_result' = [op |-> "init_round"]
    /\ UNCHANGED <<rule, nodeVars, gameVars, evalVars, trainVars, samplingVars, mainVars, brVars>>

DealerNext ==
    \/ Update
    \/ InitRoundAndDealCards
    \/ InitHand

-----------------------------------------------------------------------------
(* The exact-CFR trainer (solvers/cfr/mod.rs).  Trainer::cfr is recursive: *)
(* call_stack holds one activation per call in progress, each with the     *)
(* locals of the call, and every action below is one stretch of the        *)
(* function body between two recursive calls.                              *)

MaxIterations == 2
TrainGame == "kuhn"

NoUtil == <<>>
ZeroUtil == Arr2(RZero, RZero)

\* Node::new of the exact-CFR solver, with its action list and info set.
CfrNodeNew(actions, info_set) ==
    [regret_sum |-> Fill(RZero, Len(actions)),
     strategy |-> Fill(RZero, Len(actions)),
     strategy_sum |-> Fill(RZero, Len(actions)),
     actions |-> actions,
     info_set |-> info_set]

\* Only the actions the node's strategy plays.
get_actions_played(n) ==
    LET Played(i, acc) ==
            IF RLt(RZero, n.strategy[i]) THEN Append(acc, n.actions[i]) ELSE acc
        RECURSIVE Collect(_, _)
        Collect(i, acc) ==
            IF i > Len(n.actions) THEN acc ELSE Collect(i + 1, Played(i, acc))
    IN  Collect(1, <<>>)

\* Node::get_actions
get_actions(n) == n.actions

\* self.nodes.entry(info_set).or_insert_with(|| Node::new(..))
OrInsertNode(ns, s, info_set) ==
    IF info_set \in DOMAIN ns THEN ns
    ELSE MapInsert(ns, info_set,
                   CfrNodeNew(ListLegalActions(TrainGame, s), info_set))

add_regret_sum_unweighted(n, action_index, regret, opponent_prob) ==
    [n EXCEPT !.regret_sum[action_index] = RAdd(@, regret)]

\* Node::add_regret_sum
add_regret_sum(n, action_index, regret, opponent_prob) ==
    [n EXCEPT !.regret_sum[action_index] = RAdd(@, RMul(opponent_prob, regret))]

\* The activation of cfr(state, actions_prob) at its first line.
Activation(s, actions_prob) ==
    [state |-> s, actions_prob |-> actions_prob, pc |-> "enter",
     actions |-> <<>>, i |-> 1, node_util |-> ZeroUtil, info_set |-> <<>>,
     strategy |-> <<>>, player_action_utils |-> <<>>, action_utils |-> <<>>]

Top == call_stack[Len(call_stack)]
Running == call_stack # <<>>
SetTop(f) == [call_stack EXCEPT ![Len(call_stack)] = f]
Pop == SubSeq(call_stack, 1, Len(call_stack) - 1)
Push(parent, child) == Append(SetTop(parent), child)

\* next_actions_prob of a chance node: every entry times prob
ChanceReach(actions_prob, prob) ==
    [p \in Players |-> RMul(actions_prob[p], prob)]

DecisionReach_both(actions_prob, player, action_prob) ==
    [p \in Players |-> RMul(actions_prob[p], action_prob)]

\* next_actions_prob of a decision node: the acting player's entry times
\* action_prob
DecisionReach(actions_prob, player, action_prob) ==
    [actions_prob EXCEPT ![player] = RMul(@, action_prob)]

\* node_util[player] += prob * action_util[player], for both players
AddWeighted(node_util, prob, action_util) ==
    [p \in Players |-> RAdd(node_util[p], RMul(prob, action_util[p]))]

\* The regret loop at the end of a decision node's visit.
RECURSIVE AddRegrets(_, _, _, _, _)
AddRegrets(n, player_action_utils, node_util_player, opponent_prob, i) ==
    IF i > Len(player_action_utils) THEN n
    ELSE AddRegrets(add_regret_sum(n, i,
                        RSub(player_action_utils[i], node_util_player),
                        opponent_prob),
                    player_action_utils, node_util_player, opponent_prob, i + 1)

TrainInit ==
    /\ nodes = <<>>
    /\ call_stack = <<>>
    /\ cfr_ret = NoUtil
    /\ iteration = 0
    /\ train_util = RZero

\* Trainer::train: the call of cfr on new_root with [1.0, 1.0].
TrainCallCfr ==
    /\ ~Running
    /\ cfr_ret = NoUtil
    /\ iteration < MaxIterations
    /\ call_stack' = <<Activation(NewRoot(TrainGame), Arr2(ROne, ROne))>>
    /\ UNCHANGED <<nodes, cfr_ret, iteration, train_util>>
    /\ UNCHANGED <<nodeVars, gameVars, evalVars, dealerVars, samplingVars, mainVars, brVars>>

\* Trainer::train: util += cfr(..)[0] and the next i.
TrainAddUtil ==
    /\ ~Running
    /\ cfr_ret # NoUtil
    /\ train_util' = RAdd(train_util, cfr_ret[0])
    /\ iteration' = iteration + 1
    /\ cfr_ret' = NoUtil
    /\ UNCHANGED <<nodes, call_stack>>
    /\ UNCHANGED <<nodeVars, gameVars, evalVars, dealerVars, samplingVars, mainVars, brVars>>

\* cfr on a terminal state returns its payouts.
CfrTerminal ==
    /\ Running
    /\ Top.pc = "enter"
    /\ IsTerminal(TrainGame, Top.state)
    /\ cfr_ret' = GetPayouts(TrainGame, Top.state).v
    /\ call_stack' = Pop
    /\ UNCHANGED <<nodes, iteration, train_util>>
    /\ UNCHANGED <<nodeVars, gameVars, evalVars, dealerVars, samplingVars, mainVars, brVars>>

\* cfr on a chance node: the action list and an empty node_util.
CfrChance ==
    /\ Running
    /\ Top.pc = "enter"
    /\ ~IsTerminal(TrainGame, Top.state)
    /\ GetNodePlayerId(TrainGame, Top.state) = Chance
    /\ call_stack' = SetTop([Top EXCEPT
            !.pc = "chance",
            !.actions = ListLegalChanceActions(TrainGame, Top.state)])
    /\ UNCHANGED <<nodes, cfr_ret, iteration, train_util>>
    /\ UNCHANGED <<nodeVars, gameVars, evalVars, dealerVars, samplingVars, mainVars, brVars>>

\* The chance loop up to its recursive call.
CfrChanceCall ==
    /\ Running
    /\ Top.pc = "chance"
    /\ Top.i <= Len(Top.actions)
    /\ call_stack' =
          Push([Top EXCEPT !.pc = "chance_called"],
               Activation(WithAction(TrainGame, Top.state, Top.actions[Top.i][1]),
                          ChanceReach(Top.actions_prob, Top.actions[Top.i][2])))
    /\ UNCHANGED <<nodes, cfr_ret, iteration, train_util>>
    /\ UNCHANGED <<nodeVars, gameVars, evalVars, dealerVars, samplingVars, mainVars, brVars>>

\* The chance loop after its recursive call has returned.
CfrChanceReturn ==
    /\ Running
    /\ Top.pc = "chance_called"
    /\ cfr_ret # NoUtil
    /\ call_stack' = SetTop([Top EXCEPT
            !.pc = "chance",
            !.node_util = AddWeighted(@, Top.actions[Top.i][2], cfr_ret),
            !.i = @ + 1])
    /\ cfr_ret' = NoUtil
    /\ UNCHANGED <<nodes, iteration, train_util>>
    /\ UNCHANGED <<nodeVars, gameVars, evalVars, dealerVars, samplingVars, mainVars, brVars>>

\* return node_util of a chance node
CfrChanceExit ==
    /\ Running
    /\ Top.pc = "chance"
    /\ Top.i > Len(Top.actions)
    /\ cfr_ret' = Top.node_util
    /\ call_stack' = Pop
    /\ UNCHANGED <<nodes, iteration, train_util>>
    /\ UNCHANGED <<nodeVars, gameVars, evalVars, dealerVars, samplingVars, mainVars, brVars>>

\* cfr on a decision node: the node of the information set is looked up
\* and, at the first visit, created.
CfrFetchNode ==
    /\ Running
    /\ Top.pc = "enter"
    /\ ~IsTerminal(TrainGame, Top.state)
    /\ GetNodePlayerId(TrainGame, Top.state) # Chance
    /\ nodes' = OrInsertNode(nodes, Top.state, ToInfoSet(TrainGame, Top.state))
    /\ call_stack' = SetTop([Top EXCEPT
            !.pc = "fetched",
            !.info_set = ToInfoSet(TrainGame, Top.state)])
    /\ UNCHANGED <<cfr_ret, iteration, train_util>>
    /\ UNCHANGED <<nodeVars, gameVars, evalVars, dealerVars, samplingVars, mainVars, brVars>>

\* cfr on a decision node, from get_actions to to_strategy.
CfrDecision ==
    /\ Running
    /\ Top.pc = "fetched"
    /\ nodes' = [nodes EXCEPT ![Top.info_set] =
            to_strategy(@, Top.actions_prob[GetNodePlayerId(TrainGame, Top.state)])]
    /\ call_stack' = SetTop([Top EXCEPT
            !.pc = "decision",
            !.actions = get_actions(nodes'[Top.info_set]),
            !.strategy = nodes'[Top.info_set].strategy,
            !.player_action_utils =
                Fill(RZero, Len(get_actions(nodes'[Top.info_set])))])
    /\ UNCHANGED <<cfr_ret, iteration, train_util>>
    /\ UNCHANGED <<nodeVars, gameVars, evalVars, dealerVars, samplingVars, mainVars, brVars>>

\* The action loop of a decision node up to its recursive call.
CfrDecisionCall ==
    /\ Running
    /\ Top.pc = "decision"
    /\ Top.i <= Len(Top.actions)
    /\ call_stack' =
          Push([Top EXCEPT !.pc = "decision_called"],
               Activation(WithAction(TrainGame, Top.state, Top.actions[Top.i]),
                          DecisionReach(Top.actions_prob,
                                        GetNodePlayerId(TrainGame, Top.state),
                                        Top.strategy[Top.i])))
    /\ UNCHANGED <<nodes, cfr_ret, iteration, train_util>>
    /\ UNCHANGED <<nodeVars, gameVars, evalVars, dealerVars, samplingVars, mainVars, brVars>>

\* The action loop after its recursive call has returned.  action_utils
\* keeps every action_util of the visit for the properties below; the code
\* keeps only the acting player's entry, in player_action_utils.
CfrDecisionReturn ==
    /\ Running
    /\ Top.pc = "decision_called"
    /\ cfr_ret # NoUtil
    /\ call_stack' = SetTop([Top EXCEPT
            !.pc = "decision",
            !.player_action_utils[Top.i] =
                cfr_ret[GetNodePlayerId(TrainGame, Top.state)],
            !.action_utils = Append(@, cfr_ret),
            !.node_util = AddWeighted(@, Top.strategy[Top.i], cfr_ret),
            !.i = @ + 1])
    /\ cfr_ret' = NoUtil
    /\ UNCHANGED <<nodes, iteration, train_util>>
    /\ UNCHANGED <<nodeVars, gameVars, evalVars, dealerVars, samplingVars, mainVars, brVars>>

\* The regret loop and return node_util of a decision node.
CfrDecisionExit ==
    /\ Running
    /\ Top.pc = "decision"
    /\ Top.i > Len(Top.actions)
    /\ nodes' = [nodes EXCEPT ![Top.info_set] =
            AddRegrets(@, Top.player_action_utils,
                       Top.node_util[GetNodePlayerId(TrainGame, Top.state)],
                       Top.actions_prob[Opponent(GetNodePlayerId(TrainGame, Top.state))],
                       1)]
    /\ cfr_ret' = Top.node_util
    /\ call_stack' = Pop
    /\ UNCHANGED <<iteration, train_util>>
    /\ UNCHANGED <<nodeVars, gameVars, evalVars, dealerVars, samplingVars, mainVars, brVars>>

TrainNext ==
    \/ TrainCallCfr
    \/ TrainAddUtil
    \/ CfrTerminal
    \/ CfrChance
    \/ CfrChanceCall
    \/ CfrChanceReturn
    \/ CfrChanceExit
    \/ CfrFetchNode
    \/ CfrDecision
    \/ CfrDecisionCall
    \/ CfrDecisionReturn
    \/ CfrDecisionExit

-----------------------------------------------------------------------------
(* solvers/mccfr_external_sampling/trainer.rs: Trainer::train_impl and      *)
(* Trainer::sampling.  The recursion is a stack of activations, one step    *)
(* per statement group; the RefCell borrows of the node map and of the      *)
(* node cells are tracked in borrows, each with the depth of the activation *)
(* that holds it.                                                           *)

MaxSamplings == 3     \* calls of sampling from train_impl (two per iteration)
SamplingGame == "kuhn"

\* The chance actions the random generator gets to draw in the runs
\* explored, as indices into list_legal_chance_actions: the deals
\* (Jack, Queen), (Queen, King) and (King, Jack).
DrawnChanceIndices == {1, 4, 5}

NoValue == <<>>

\* Node::new of the MCCFR solver
MccfrNodeNew(actions) ==
    [regret_sum |-> Fill(RZero, Len(actions)),
     strategy_sum |-> Fill(RZero, Len(actions)),
     strategy |-> Fill(RZero, Len(actions)),
     actions |-> actions]

\* nodes.insert(info_set, ..): a fresh node whether or not one is there.
MccfrOrInsert_always(ns, s, info_set) ==
    MapInsert(ns, info_set, MccfrNodeNew(ListLegalActions(SamplingGame, s)))

\* nodes.entry(info_set).or_insert_with(|| Rc::new(RefCell::new(Node::new(..))))
MccfrOrInsert(ns, s, info_set) ==
    IF info_set \in DOMAIN ns THEN ns
    ELSE MapInsert(ns, info_set, MccfrNodeNew(ListLegalActions(SamplingGame, s)))

\* The keys of the node map's own RefCell and of a node's RefCell in borrows.
NodeCell(info_set) == <<"node", info_set>>
NodesCell == <<"nodes">>

\* RefCell: a mutable borrow needs the cell free, a shared one needs it free
\* of mutable borrows.
BorrowConflicts(bs, cell, kind) ==
    \E b \in bs : b.cell = cell /\ (kind = "mut" \/ b.kind = "mut")

Borrowed(bs, cell, kind, depth) ==
    bs \cup {[cell |-> cell, kind |-> kind, depth |-> depth]}

\* A dropped guard that leaves its borrow behind.
DropGuards_leaked(bs, depth) == bs

\* The guards of the activation at depth go out of scope.
DropGuards(bs, depth) == {b \in bs : b.depth # depth}

\* for (i, act_util) in act_utils: regret_sum[i] += act_util
AddActRegrets_raw(n, act_utils, v) ==
    [n EXCEPT !.regret_sum =
        [i \in 1..Len(act_utils) |-> RAdd(n.regret_sum[i], act_utils[i])]]

\* for (i, act_util) in act_utils: regret_sum[i] += act_util - util
AddActRegrets(n, act_utils, v) ==
    [n EXCEPT !.regret_sum =
        [i \in 1..Len(n.regret_sum) |->
            IF i <= Len(act_utils)
            THEN RAdd(n.regret_sum[i], RSub(act_utils[i], v))
            ELSE n.regret_sum[i]]]

\* strategy_sum[action_index] += strategy[action_index] only
AddStrategy_sampledOnly(n, strategy, action_index) ==
    [n EXCEPT !.strategy_sum[action_index] = RAdd(@, strategy[action_index])]

\* for (i, act_prob) in strategy: strategy_sum[i] += act_prob
AddStrategy(n, strategy, action_index) ==
    [n EXCEPT !.strategy_sum =
        [i \in 1..Len(n.strategy_sum) |->
            IF i <= Len(strategy) THEN RAdd(n.strategy_sum[i], strategy[i])
            ELSE n.strategy_sum[i]]]

\* WeightedIndex draws only indices of positive weight.
SampleIndices(weights) == {i \in 1..Len(weights) : RLt(RZero, weights[i])}

McActivation(s, traverser_id) ==
    [state |-> s, traverser_id |-> traverser_id, pc |-> "enter",
     info_set |-> <<>>, actions |-> <<>>, strategy |-> <<>>, i |-> 1,
     act_utils |-> <<>>, util |-> RZero, action_index |-> 0]

McTop == mc_stack[Len(mc_stack)]
McRunning == mc_stack # <<>>
McDepth == Len(mc_stack)
McSetTop(f) == [mc_stack EXCEPT ![Len(mc_stack)] = f]
McPop == SubSeq(mc_stack, 1, Len(mc_stack) - 1)
McPush(parent, child) == Append(McSetTop(parent), child)
McPlayer == GetNodePlayerId(SamplingGame, McTop.state)

SamplingInit ==
    /\ mc_nodes = <<>>
    /\ mc_stack = <<>>
    /\ mc_ret = NoValue
    /\ samplings = 0
    /\ util_sum = RZero
    /\ borrows = {}

\* train_impl: self.sampling(&initial, Player(traverser)), traverser 0 then 1.
TrainImplCall ==
    /\ ~McRunning
    /\ mc_ret = NoValue
    /\ samplings < MaxSamplings
    /\ mc_stack' = <<McActivation(NewRoot(SamplingGame), samplings % 2)>>
    /\ UNCHANGED <<mc_nodes, mc_ret, samplings, util_sum, borrows>>
    /\ UNCHANGED <<nodeVars, gameVars, evalVars, dealerVars, trainVars, mainVars, brVars>>

\* train_impl: util_sum += util for traverser 0, and the next traverser.
TrainImplAddUtil ==
    /\ ~McRunning
    /\ mc_ret # NoValue
    /\ util_sum' = IF samplings % 2 = 0 THEN RAdd(util_sum, mc_ret) ELSE util_sum
    /\ samplings' = samplings + 1
    /\ mc_ret' = NoValue
    /\ UNCHANGED <<mc_nodes, mc_stack, borrows>>
    /\ UNCHANGED <<nodeVars, gameVars, evalVars, dealerVars, trainVars, mainVars, brVars>>

\* sampling on a terminal state returns the traverser's payout.
SampTerminal ==
    /\ McRunning
    /\ McTop.pc = "enter"
    /\ IsTerminal(SamplingGame, McTop.state)
    /\ mc_ret' = GetPayouts(SamplingGame, McTop.state).v[McTop.traverser_id]
    /\ mc_stack' = McPop
    /\ UNCHANGED <<mc_nodes, samplings, util_sum, borrows>>
    /\ UNCHANGED <<nodeVars, gameVars, evalVars, dealerVars, trainVars, mainVars, brVars>>

\* sampling on a chance node: one sampled chance action is recursed into.
SampChance ==
    /\ McRunning
    /\ McTop.pc = "enter"
    /\ ~IsTerminal(SamplingGame, McTop.state)
    /\ McPlayer = Chance
    /\ \E k \in DrawnChanceIndices \cap
                 SampleIndices([j \in DOMAIN ListLegalChanceActions(SamplingGame, McTop.state)
                                  |-> ListLegalChanceActions(SamplingGame, McTop.state)[j][2]]) :
          mc_stack' = McPush([McTop EXCEPT !.pc = "chance", !.action_index = k],
              McActivation(WithAction(SamplingGame, McTop.state,
                               ListLegalChanceActions(SamplingGame, McTop.state)[k][1]),
                           McTop.traverser_id))
    /\ UNCHANGED <<mc_nodes, mc_ret, samplings, util_sum, borrows>>
    /\ UNCHANGED <<nodeVars, gameVars, evalVars, dealerVars, trainVars, mainVars, brVars>>

\* The chance node returns what its recursive call returned.
SampChanceReturn ==
    /\ McRunning
    /\ McTop.pc = "chance"
    /\ mc_ret # NoValue
    /\ mc_stack' = McPop
    /\ UNCHANGED <<mc_nodes, mc_ret, samplings, util_sum, borrows>>
    /\ UNCHANGED <<nodeVars, gameVars, evalVars, dealerVars, trainVars, mainVars, brVars>>

\* nodes.borrow_mut().entry(info_set).or_insert_with(..): the map is
\* borrowed mutably and the node is fetched or created.
SampFetchNode ==
    /\ McRunning
    /\ McTop.pc = "enter"
    /\ ~IsTerminal(SamplingGame, McTop.state)
    /\ McPlayer # Chance
    /\ IF BorrowConflicts(borrows, NodesCell, "mut")
       THEN /\ mc_stack' = McSetTop([McTop EXCEPT !.pc = "panicked"])
            /\ UNCHANGED <<mc_nodes, borrows>>
       ELSE /\ borrows' = Borrowed(borrows, NodesCell, "mut", McDepth)
            /\ mc_nodes' = MccfrOrInsert(mc_nodes, McTop.state,
                               ToInfoSet(SamplingGame, McTop.state))
            /\ mc_stack' = McSetTop([McTop EXCEPT
                    !.pc = "fetching",
                    !.info_set = ToInfoSet(SamplingGame, McTop.state)])
    /\ UNCHANGED <<mc_ret, samplings, util_sum>>
    /\ UNCHANGED <<nodeVars, gameVars, evalVars, dealerVars, trainVars, mainVars, brVars>>

\* The end of the statement drops the temporary RefMut of the map.
SampFetched ==
    /\ McRunning
    /\ McTop.pc = "fetching"
    /\ borrows' = DropGuards(borrows, McDepth)
    /\ mc_stack' = McSetTop([McTop EXCEPT !.pc = "fetched"])
    /\ UNCHANGED <<mc_nodes, mc_ret, samplings, util_sum>>
    /\ UNCHANGED <<nodeVars, gameVars, evalVars, dealerVars, trainVars, mainVars, brVars>>

\* node.borrow(): the actions and the regret-matched strategy are copied.
SampReadNode ==
    /\ McRunning
    /\ McTop.pc = "fetched"
    /\ IF BorrowConflicts(borrows, NodeCell(McTop.info_set), "shared")
       THEN /\ mc_stack' = McSetTop([McTop EXCEPT !.pc = "panicked"])
            /\ UNCHANGED borrows
       ELSE /\ borrows' = Borrowed(borrows, NodeCell(McTop.info_set), "shared", McDepth)
            /\ mc_stack' = McSetTop([McTop EXCEPT
                    !.pc = "reading",
                    !.actions = mc_nodes[McTop.info_set].actions,
                    !.strategy = regret_matching(mc_nodes[McTop.info_set]).strategy])
    /\ UNCHANGED <<mc_nodes, mc_ret, samplings, util_sum>>
    /\ UNCHANGED <<nodeVars, gameVars, evalVars, dealerVars, trainVars, mainVars, brVars>>

\* The block ends, node_cell is dropped, and the lengths are asserted equal.
SampRead ==
    /\ McRunning
    /\ McTop.pc = "reading"
    /\ borrows' = DropGuards(borrows, McDepth)
    /\ mc_stack' = McSetTop([McTop EXCEPT !.pc =
            IF Len(McTop.strategy) # Len(McTop.actions) THEN "panicked"
            ELSE IF McPlayer = McTop.traverser_id THEN "traverser"
            ELSE "opponent"])
    /\ UNCHANGED <<mc_nodes, mc_ret, samplings, util_sum>>
    /\ UNCHANGED <<nodeVars, gameVars, evalVars, dealerVars, trainVars, mainVars, brVars>>

\* The traverser's loop up to its recursive call for action i.
SampTraverserCall ==
    /\ McRunning
    /\ McTop.pc = "traverser"
    /\ McTop.i <= Len(McTop.actions)
    /\ mc_ret = NoValue
    /\ mc_stack' = McPush([McTop EXCEPT !.pc = "traverser_call"],
           McActivation(WithAction(SamplingGame, McTop.state, McTop.actions[McTop.i]),
                        McTop.traverser_id))
    /\ UNCHANGED <<mc_nodes, mc_ret, samplings, util_sum, borrows>>
    /\ UNCHANGED <<nodeVars, gameVars, evalVars, dealerVars, trainVars, mainVars, brVars>>

\* act_utils.push(act_util); util += strategy[i] * act_util
SampTraverserReturn ==
    /\ McRunning
    /\ McTop.pc = "traverser_call"
    /\ mc_ret # NoValue
    /\ mc_stack' = McSetTop([McTop EXCEPT
            !.pc = "traverser",
            !.act_utils = Append(@, mc_ret),
            !.util = RAdd(@, RMul(McTop.strategy[McTop.i], mc_ret)),
            !.i = @ + 1])
    /\ mc_ret' = NoValue
    /\ UNCHANGED <<mc_nodes, samplings, util_sum, borrows>>
    /\ UNCHANGED <<nodeVars, gameVars, evalVars, dealerVars, trainVars, mainVars, brVars>>

\* After the loop: node.borrow_mut() and the regret update.
SampTraverserUpdate ==
    /\ McRunning
    /\ McTop.pc = "traverser"
    /\ McTop.i > Len(McTop.actions)
    /\ IF BorrowConflicts(borrows, NodeCell(McTop.info_set), "mut")
       THEN /\ mc_stack' = McSetTop([McTop EXCEPT !.pc = "panicked"])
            /\ UNCHANGED <<mc_nodes, borrows>>
       ELSE /\ borrows' = Borrowed(borrows, NodeCell(McTop.info_set), "mut", McDepth)
            /\ mc_nodes' = [mc_nodes EXCEPT ![McTop.info_set] =
                   AddActRegrets(@, McTop.act_utils, McTop.util)]
            /\ mc_stack' = McSetTop([McTop EXCEPT !.pc = "updated"])
    /\ UNCHANGED <<mc_ret, samplings, util_sum>>
    /\ UNCHANGED <<nodeVars, gameVars, evalVars, dealerVars, trainVars, mainVars, brVars>>

\* The opponent's branch up to its one recursive call.
SampOpponentCall ==
    /\ McRunning
    /\ McTop.pc = "opponent"
    /\ \E action_index \in SampleIndices(McTop.strategy) :
          mc_stack' = McPush([McTop EXCEPT !.pc = "opponent_call",
                                           !.action_index = action_index],
              McActivation(WithAction(SamplingGame, McTop.state,
                               McTop.actions[action_index]),
                           McTop.traverser_id))
    /\ UNCHANGED <<mc_nodes, mc_ret, samplings, util_sum, borrows>>
    /\ UNCHANGED <<nodeVars, gameVars, evalVars, dealerVars, trainVars, mainVars, brVars>>

\* After the call: node.borrow_mut() and the strategy_sum update.
SampOpponentUpdate ==
    /\ McRunning
    /\ McTop.pc = "opponent_call"
    /\ mc_ret # NoValue
    /\ IF BorrowConflicts(borrows, NodeCell(McTop.info_set), "mut")
       THEN /\ mc_stack' = McSetTop([McTop EXCEPT !.pc = "panicked"])
            /\ UNCHANGED <<mc_nodes, borrows>>
       ELSE /\ borrows' = Borrowed(borrows, NodeCell(McTop.info_set), "mut", McDepth)
            /\ mc_nodes' = [mc_nodes EXCEPT ![McTop.info_set] =
                   AddStrategy(@, McTop.strategy, McTop.action_index)]
            /\ mc_stack' = McSetTop([McTop EXCEPT !.pc = "updated", !.util = mc_ret])
    /\ mc_ret' = NoValue
    /\ UNCHANGED <<samplings, util_sum>>
    /\ UNCHANGED <<nodeVars, gameVars, evalVars, dealerVars, trainVars, mainVars, brVars>>

\* The decision node returns util; node_mut is dropped.
SampDecisionExit ==
    /\ McRunning
    /\ McTop.pc = "updated"
    /\ borrows' = DropGuards(borrows, McDepth)
    /\ mc_ret' = McTop.util
    /\ mc_stack' = McPop
    /\ UNCHANGED <<mc_nodes, samplings, util_sum>>
    /\ UNCHANGED <<nodeVars, gameVars, evalVars, dealerVars, trainVars, mainVars, brVars>>

SamplingNext ==
    \/ TrainImplCall
    \/ TrainImplAddUtil
    \/ SampTerminal
    \/ SampChance
    \/ SampChanceReturn
    \/ SampFetchNode
    \/ SampFetched
    \/ SampReadNode
    \/ SampRead
    \/ SampTraverserCall
    \/ SampTraverserReturn
    \/ SampTraverserUpdate
    \/ SampOpponentCall
    \/ SampOpponentUpdate
    \/ SampDecisionExit

-----------------------------------------------------------------------------
(* eval.rs: calc_best_response_value followed step by step, as a stack of  *)
(* activations, after the reach-probability pass on Kuhn.  The evaluated   *)
(* strategy is a table that bets with the same probability everywhere or   *)
(* a trainer with a fresh node for every information set.                  *)

BrTables ==
    {HashMapStrategy([i \in KuhnInfoSets |-> BetWith(x)]) : x \in GridProbs}
        \cup {TrainerStrategy([i \in KuhnInfoSets |-> NodeNew(2)])}

BrActivation(s) ==
    [state |-> s, pc |-> "enter", moves |-> <<>>, i |-> 1, node_util |-> RZero,
     info_set |-> <<>>, actions |-> <<>>, act_i |-> 1, sibs |-> <<>>,
     sib_j |-> 1, act_util |-> RZero, act_utils |-> <<>>,
     best_action_index |-> 0]

BrTop == br_stack[Len(br_stack)]
BrRunning == br_stack # <<>>
BrSetTop(f) == [br_stack EXCEPT ![Len(br_stack)] = f]
BrPop == SubSeq(br_stack, 1, Len(br_stack) - 1)
BrPush(parent, child) == Append(BrSetTop(parent), child)
BrNodePlayer == GetNodePlayerId(EvalGame, BrTop.state)

\* Every visit computes the action utilities anew.
NeedsActionUtilities_always(au, info_set) == TRUE

\* !action_utilities.contains_key(&info_set)
NeedsActionUtilities(au, info_set) == info_set \notin DOMAIN au

BrRunInit ==
    /\ table \in BrTables
    /\ responder \in Players
    /\ pc = "reach"
    /\ rp = Arr2(calc_reach_probabilities(0, table, EvalGame, NewRoot(EvalGame),
                                          ROne, <<>>).v,
                 calc_reach_probabilities(1, table, EvalGame, NewRoot(EvalGame),
                                          ROne, <<>>).v)
    /\ brmap = <<>> /\ br = <<>> /\ pure = <<>> /\ ev = <<>>
    /\ expl = <<>>
    /\ query = <<>>
    /\ br_stack = <<BrActivation(NewRoot(EvalGame))>>
    /\ br_ret = NoValue
    /\ action_utilities = <<>>

\* A terminal state returns the payout of br_player.
BrTerminal ==
    /\ BrRunning
    /\ BrTop.pc = "enter"
    /\ IsTerminal(EvalGame, BrTop.state)
    /\ br_ret' = GetPayouts(EvalGame, BrTop.state).v[responder]
    /\ br_stack' = BrPop
    /\ UNCHANGED <<responder, action_utilities>>
    /\ UNCHANGED <<nodeVars, gameVars, evalVars, dealerVars, trainVars, samplingVars, mainVars>>

\* A chance node or a node of the opponent: the <<action, probability>>
\* pairs and node_util = 0.0.
BrSumEnter ==
    /\ BrRunning
    /\ BrTop.pc = "enter"
    /\ ~IsTerminal(EvalGame, BrTop.state)
    /\ BrNodePlayer # responder
    /\ br_stack' = BrSetTop([BrTop EXCEPT
            !.pc = "sum",
            !.moves = IF BrNodePlayer = Chance
                      THEN ListLegalChanceActions(EvalGame, BrTop.state)
                      ELSE StrategyMoves(table, EvalGame, BrTop.state).v])
    /\ UNCHANGED <<responder, br_ret, action_utilities>>
    /\ UNCHANGED <<nodeVars, gameVars, evalVars, dealerVars, trainVars, samplingVars, mainVars>>

\* The loop of such a node up to its recursive call.
BrSumCall ==
    /\ BrRunning
    /\ BrTop.pc = "sum"
    /\ BrTop.i <= Len(BrTop.moves)
    /\ br_stack' = BrPush([BrTop EXCEPT !.pc = "sum_call"],
           BrActivation(WithAction(EvalGame, BrTop.state, BrTop.moves[BrTop.i][1])))
    /\ UNCHANGED <<responder, br_ret, action_utilities>>
    /\ UNCHANGED <<nodeVars, gameVars, evalVars, dealerVars, trainVars, samplingVars, mainVars>>

\* node_util += prob * act_util
BrSumReturn ==
    /\ BrRunning
    /\ BrTop.pc = "sum_call"
    /\ br_ret # NoValue
    /\ br_stack' = BrSetTop([BrTop EXCEPT
            !.pc = "sum",
            !.node_util = RAdd(@, RMul(BrTop.moves[BrTop.i][2], br_ret)),
            !.i = @ + 1])
    /\ br_ret' = NoValue
    /\ UNCHANGED <<responder, action_utilities>>
    /\ UNCHANGED <<nodeVars, gameVars, evalVars, dealerVars, trainVars, samplingVars, mainVars>>

\* return node_util
BrSumExit ==
    /\ BrRunning
    /\ BrTop.pc = "sum"
    /\ BrTop.i > Len(BrTop.moves)
    /\ br_ret' = BrTop.node_util
    /\ br_stack' = BrPop
    /\ UNCHANGED <<responder, action_utilities>>
    /\ UNCHANGED <<nodeVars, gameVars, evalVars, dealerVars, trainVars, samplingVars, mainVars>>

\* A node of br_player: the information set is looked up in
\* action_utilities, and act_utils is set up when it is not there.
BrBestEnter ==
    /\ BrRunning
    /\ BrTop.pc = "enter"
    /\ ~IsTerminal(EvalGame, BrTop.state)
    /\ BrNodePlayer = responder
    /\ br_stack' = BrSetTop([BrTop EXCEPT
            !.info_set = ToInfoSet(EvalGame, BrTop.state),
            !.actions = ListLegalActions(EvalGame, BrTop.state),
            !.act_utils = Fill(RZero, Len(ListLegalActions(EvalGame, BrTop.state))),
            !.sibs = MapEntries(rp[responder][ToInfoSet(EvalGame, BrTop.state)]),
            !.pc = IF NeedsActionUtilities(action_utilities,
                                           ToInfoSet(EvalGame, BrTop.state))
                   THEN "acts" ELSE "play"])
    /\ UNCHANGED <<responder, br_ret, action_utilities>>
    /\ UNCHANGED <<nodeVars, gameVars, evalVars, dealerVars, trainVars, samplingVars, mainVars>>

\* The loop over the sibling states up to its recursive call.
BrSiblingCall ==
    /\ BrRunning
    /\ BrTop.pc = "acts"
    /\ BrTop.act_i <= Len(BrTop.actions)
    /\ BrTop.sib_j <= Len(BrTop.sibs)
    /\ br_stack' = BrPush([BrTop EXCEPT !.pc = "sibling_call"],
           BrActivation(WithAction(EvalGame, BrTop.sibs[BrTop.sib_j][1],
                                   BrTop.actions[BrTop.act_i])))
    /\ UNCHANGED <<responder, br_ret, action_utilities>>
    /\ UNCHANGED <<nodeVars, gameVars, evalVars, dealerVars, trainVars, samplingVars, mainVars>>

\* act_util += state_reach_prob * util
BrSiblingReturn ==
    /\ BrRunning
    /\ BrTop.pc = "sibling_call"
    /\ br_ret # NoValue
    /\ br_stack' = BrSetTop([BrTop EXCEPT
            !.pc = "acts",
            !.act_util = RAdd(@, RMul(BrTop.sibs[BrTop.sib_j][2], br_ret)),
            !.sib_j = @ + 1])
    /\ br_ret' = NoValue
    /\ UNCHANGED <<responder, action_utilities>>
    /\ UNCHANGED <<nodeVars, gameVars, evalVars, dealerVars, trainVars, samplingVars, mainVars>>

\* act_utils[act_i] = act_util, and the next action
BrActionDone ==
    /\ BrRunning
    /\ BrTop.pc = "acts"
    /\ BrTop.act_i <= Len(BrTop.actions)
    /\ BrTop.sib_j > Len(BrTop.sibs)
    /\ br_stack' = BrSetTop([BrTop EXCEPT
            !.act_utils[BrTop.act_i] = BrTop.act_util,
            !.act_i = @ + 1,
            !.sib_j = 1,
            !.act_util = RZero])
    /\ UNCHANGED <<responder, br_ret, action_utilities>>
    /\ UNCHANGED <<nodeVars, gameVars, evalVars, dealerVars, trainVars, samplingVars, mainVars>>

\* action_utilities.insert(info_set.clone(), act_utils)
BrInsertActionUtilities ==
    /\ BrRunning
    /\ BrTop.pc = "acts"
    /\ BrTop.act_i > Len(BrTop.actions)
    /\ action_utilities' = MapInsert(action_utilities, BrTop.info_set, BrTop.act_utils)
    /\ br_stack' = BrSetTop([BrTop EXCEPT !.pc = "play"])
    /\ UNCHANGED <<responder, br_ret>>
    /\ UNCHANGED <<nodeVars, gameVars, evalVars, dealerVars, trainVars, samplingVars, mainVars>>

\* The best action of the information set is followed at the state.
BrPlayCall ==
    /\ BrRunning
    /\ BrTop.pc = "play"
    /\ br_stack' = BrPush(
           [BrTop EXCEPT !.pc = "play_call",
                         !.best_action_index =
                             max_index(action_utilities[BrTop.info_set])],
           BrActivation(WithAction(EvalGame, BrTop.state,
               BrTop.actions[max_index(action_utilities[BrTop.info_set])])))
    /\ UNCHANGED <<responder, br_ret, action_utilities>>
    /\ UNCHANGED <<nodeVars, gameVars, evalVars, dealerVars, trainVars, samplingVars, mainVars>>

\* The node of br_player returns what that call returned.
BrPlayReturn ==
    /\ BrRunning
    /\ BrTop.pc = "play_call"
    /\ br_ret # NoValue
    /\ br_stack' = BrPop
    /\ UNCHANGED <<responder, br_ret, action_utilities>>
    /\ UNCHANGED <<nodeVars, gameVars, evalVars, dealerVars, trainVars, samplingVars, mainVars>>

BrRunNext ==
    \/ BrTerminal
    \/ BrSumEnter
    \/ BrSumCall
    \/ BrSumReturn
    \/ BrSumExit
    \/ BrBestEnter
    \/ BrSiblingCall
    \/ BrSiblingReturn
    \/ BrActionDone
    \/ BrInsertActionUtilities
    \/ BrPlayCall
    \/ BrPlayReturn

-----------------------------------------------------------------------------
(* The training loops that report the average game value: train of         *)
(* main.rs, which runs until a duration has elapsed, and Trainer::train of *)
(* solvers/cfr/mod.rs, which runs args.iterations times.  The clocks are   *)
(* free: at each test a timer may or may not have elapsed.  epochs_run     *)
(* counts the train_one_epoch / cfr calls that have returned.              *)

MaxEpochs == 3        \* args.iterations, and the cap on the epochs of a timed run

\* The values an epoch may return for player 0.
EpochValues == {-1, 0, 1}

\* The f64 quotient util / i as f64; a zero divisor gives an infinity or NaN.
Quotient(u, divisor) ==
    IF divisor = 0 THEN [tag |-> "not_finite"] ELSE Ok(RDiv(R(u), R(divisor)))

\* info!("Average game value: {}", util / divisor)
Logged(kind, u, divisor) ==
    [kind |-> kind, divisor |-> divisor, value |-> Quotient(u, divisor)]

LoopInit ==
    /\ loop_kind \in {"duration", "iterations"}
    /\ solver = "none"
    /\ loop_pc = "epoch"
    /\ loop_i = 0
    /\ loop_util = 0
    /\ epochs_run = 0
    /\ report = <<>>

\* main.rs train: util += solver.train_one_epoch()
MainTrainOneEpoch ==
    /\ loop_kind = "duration"
    /\ loop_pc = "epoch"
    /\ \E v \in EpochValues : loop_util' = loop_util + v
    /\ epochs_run' = epochs_run + 1
    /\ loop_pc' = "elapsed"
    /\ UNCHANGED <<solver, loop_kind, loop_i, report>>
    /\ UNCHANGED <<nodeVars, gameVars, evalVars, dealerVars, trainVars, samplingVars, brVars>>

\* main.rs train: start_t.elapsed() > duration, break
MainBreak ==
    /\ loop_kind = "duration"
    /\ loop_pc = "elapsed"
    /\ loop_pc' = "finished"
    /\ UNCHANGED <<solver, loop_kind, loop_i, loop_util, epochs_run, report>>
    /\ UNCHANGED <<nodeVars, gameVars, evalVars, dealerVars, trainVars, samplingVars, brVars>>

\* main.rs train: the duration has not elapsed, log_stdout holds, the
\* average is logged, and i += 1
MainReport ==
    /\ loop_kind = "duration"
    /\ loop_pc = "elapsed"
    /\ epochs_run < MaxEpochs
    /\ report' = Logged("periodic", loop_util, loop_i)
    /\ loop_i' = loop_i + 1
    /\ loop_pc' = "epoch"
    /\ UNCHANGED <<solver, loop_kind, loop_util, epochs_run>>
    /\ UNCHANGED <<nodeVars, gameVars, evalVars, dealerVars, trainVars, samplingVars, brVars>>

\* main.rs train: neither the duration nor the stdout timer has elapsed,
\* and i += 1
MainNoReport ==
    /\ loop_kind = "duration"
    /\ loop_pc = "elapsed"
    /\ epochs_run < MaxEpochs
    /\ loop_i' = loop_i + 1
    /\ loop_pc' = "epoch"
    /\ UNCHANGED <<solver, loop_kind, loop_util, epochs_run, report>>
    /\ UNCHANGED <<nodeVars, gameVars, evalVars, dealerVars, trainVars, samplingVars, brVars>>

\* main.rs train: the final "Average game value"
MainFinalReport ==
    /\ loop_kind = "duration"
    /\ loop_pc = "finished"
    /\ report' = Logged("final", loop_util, loop_i)
    /\ loop_pc' = "done"
    /\ UNCHANGED <<solver, loop_kind, loop_i, loop_util, epochs_run>>
    /\ UNCHANGED <<nodeVars, gameVars, evalVars, dealerVars, trainVars, samplingVars, brVars>>

\* Trainer::train: util += self.cfr(&initial, [1.0, 1.0])[0]
CfrTrainEpoch ==
    /\ loop_kind = "iterations"
    /\ loop_pc = "epoch"
    /\ loop_i < MaxEpochs
    /\ \E v \in EpochValues : loop_util' = loop_util + v
    /\ epochs_run' = epochs_run + 1
    /\ loop_pc' = "elapsed"
    /\ UNCHANGED <<solver, loop_kind, loop_i, report>>
    /\ UNCHANGED <<nodeVars, gameVars, evalVars, dealerVars, trainVars, samplingVars, brVars>>

\* Trainer::train: the timer has elapsed, the average is logged, next i
CfrTrainReport ==
    /\ loop_kind = "iterations"
    /\ loop_pc = "elapsed"
    /\ report' = Logged("periodic", loop_util, loop_i)
    /\ loop_i' = loop_i + 1
    /\ loop_pc' = "epoch"
    /\ UNCHANGED <<solver, loop_kind, loop_util, epochs_run>>
    /\ UNCHANGED <<nodeVars, gameVars, evalVars, dealerVars, trainVars, samplingVars, brVars>>

\* Trainer::train: the timer has not elapsed, next i
CfrTrainNoReport ==
    /\ loop_kind = "iterations"
    /\ loop_pc = "elapsed"
    /\ loop_i' = loop_i + 1
    /\ loop_pc' = "epoch"
    /\ UNCHANGED <<solver, loop_kind, loop_util, epochs_run, report>>
    /\ UNCHANGED <<nodeVars, gameVars, evalVars, dealerVars, trainVars, samplingVars, brVars>>

\* Trainer::train: the final "Average game value"
CfrTrainFinalReport ==
    /\ loop_kind = "iterations"
    /\ loop_pc = "epoch"
    /\ loop_i = MaxEpochs
    /\ report' = Logged("final", loop_util, MaxEpochs)
    /\ loop_pc' = "done"
    /\ UNCHANGED <<solver, loop_kind, loop_i, loop_util, epochs_run>>
    /\ UNCHANGED <<nodeVars, gameVars, evalVars, dealerVars, trainVars, samplingVars, brVars>>

LoopNext ==
    \/ MainTrainOneEpoch
    \/ MainBreak
    \/ MainReport
    \/ MainNoReport
    \/ MainFinalReport
    \/ CfrTrainEpoch
    \/ CfrTrainReport
    \/ CfrTrainNoReport
    \/ CfrTrainFinalReport

-----------------------------------------------------------------------------
(* Specifications.  Each one runs one part of the program and holds the    *)
(* variables of the other parts at their idle values.                      *)

NodeIdle == node = <<>> /\ ret = NoRet
GamesIdle == game = "none" /\ state = <<>> /\ payouts = NoPayouts /\ plies = 0
EvalIdle ==
    /\ table = <<>> /\ pc = "idle" /\ rp = <<>> /\ brmap = <<>> /\ br = <<>>
    /\ pure = <<>> /\ ev = <<>> /\ expl = <<>> /\ query = <<>>

DealerIdle == rule = <<>> /\ hand_state = <<>> /\ update_result = <<>>
TrainIdle ==
    /\ nodes = <<>> /\ call_stack = <<>> /\ cfr_ret = <<>> /\ iteration = 0
    /\ train_util = RZero

SamplingIdle ==
    /\ mc_nodes = <<>> /\ mc_stack = <<>> /\ mc_ret = <<>> /\ samplings = 0
    /\ util_sum = RZero /\ borrows = {}
BrIdle ==
    /\ responder = 0 /\ br_stack = <<>> /\ br_ret = <<>> /\ action_utilities = <<>>

MainIdle ==
    /\ solver = "none" /\ loop_kind = "none" /\ loop_pc = "idle" /\ loop_i = 0
    /\ loop_util = 0 /\ epochs_run = 0 /\ report = <<>>

SpecNodeInit == NodeInit /\ GamesIdle /\ EvalIdle /\ DealerIdle /\ TrainIdle
    /\ SamplingIdle /\ MainIdle /\ BrIdle
SpecNode == SpecNodeInit /\ [][NodeNext]_vars

SpecGamesInit == GamesInit /\ NodeIdle /\ EvalIdle /\ DealerIdle /\ TrainIdle
    /\ SamplingIdle /\ MainIdle /\ BrIdle
SpecGames == SpecGamesInit /\ [][GamesNext]_vars

SpecEvalInit == EvalInit /\ NodeIdle /\ GamesIdle /\ DealerIdle /\ TrainIdle
    /\ SamplingIdle /\ MainIdle /\ BrIdle
SpecEval == SpecEvalInit /\ [][EvalNext]_vars

SpecStrategy == SpecEvalInit /\ [][StrategyNext]_vars

SpecDealerInit == DealerInit /\ NodeIdle /\ GamesIdle /\ EvalIdle /\ TrainIdle
    /\ SamplingIdle /\ MainIdle /\ BrIdle
SpecDealer == SpecDealerInit /\ [][DealerNext]_vars

SpecTrainInit == TrainInit /\ NodeIdle /\ GamesIdle /\ EvalIdle /\ DealerIdle
    /\ SamplingIdle /\ MainIdle /\ BrIdle
SpecTrain == SpecTrainInit /\ [][TrainNext]_vars

SpecSamplingInit == SamplingInit /\ NodeIdle /\ GamesIdle /\ EvalIdle /\ DealerIdle
                    /\ TrainIdle /\ MainIdle /\ BrIdle

SpecSampling == SpecSamplingInit /\ [][SamplingNext]_vars

SpecBestResponseInit ==
    /\ BrRunInit
    /\ NodeIdle /\ GamesIdle /\ DealerIdle /\ TrainIdle /\ SamplingIdle /\ MainIdle

SpecBestResponse == SpecBestResponseInit /\ [][BrRunNext]_vars

SpecReportInit ==
    /\ LoopInit
    /\ NodeIdle /\ GamesIdle /\ EvalIdle /\ DealerIdle /\ TrainIdle /\ SamplingIdle
    /\ BrIdle

SpecReport == SpecReportInit /\ [][LoopNext]_vars

\* main.rs, enum SolverArg: the run trains with one of the two solvers.
Solvers == {"Cfr", "MccfrExternalSampling"}

SolversNext ==
    \/ solver = "Cfr" /\ TrainNext
    \/ solver = "MccfrExternalSampling" /\ SamplingNext

SpecSolversInit ==
    /\ solver \in Solvers
    /\ TrainInit /\ SamplingInit
    /\ NodeIdle /\ GamesIdle /\ EvalIdle /\ DealerIdle
    /\ loop_kind = "none" /\ loop_pc = "idle" /\ loop_i = 0
    /\ loop_util = 0 /\ epochs_run = 0 /\ report = <<>>
    /\ BrIdle

SpecSolvers == SpecSolversInit /\ [][SolversNext]_vars

\* Plays of Dudo with one die each from new_root.
DudoNext == DudoRoll \/ DudoAct

SpecDudoInit ==
    /\ game = "dudo" /\ state = DudoNewRoot /\ payouts = NoPayouts /\ plies = 0
    /\ NodeIdle /\ EvalIdle /\ DealerIdle /\ TrainIdle
    /\ SamplingIdle /\ MainIdle /\ BrIdle

SpecDudo == SpecDudoInit /\ [][DudoNext]_vars

-----------------------------------------------------------------------------
(* Properties.                                                             *)

RPos(r) == RMax(r, RZero)

\* C1: regret matching (Node::to_strategy and Node::regret_matching) returns
\* a strategy of the regret vector's length whose entries are all >= 0 and
\* sum to 1; entry i is max(regret_sum[i], 0) / sum_j max(regret_sum[j], 0)
\* when that sum is positive, and 1/n when every regret is <= 0.
C1_RegretMatching ==
    ret.op \in {"to_strategy", "regret_matching"} =>
        LET r == node.regret_sum
            n == Len(r)
            total == RSumSeq([j \in 1..n |-> RPos(r[j])])
        IN  /\ Len(ret.v) = n
            /\ \A i \in 1..n : RGe(ret.v[i], RZero)
            /\ RSumSeq(ret.v) = ROne
            /\ RLt(RZero, total) =>
                    \A i \in 1..n : ret.v[i] = RDiv(RPos(r[i]), total)
            /\ (\A j \in 1..n : RLe(r[j], RZero)) =>
                    \A i \in 1..n : ret.v[i] = <<1, n>>

\* to_strategy has run on a vector with a positive, a negative and a zero regret.
C1_Witness ==
    /\ ret.op = "to_strategy"
    /\ \E i, j, k \in 1..Len(node.regret_sum) :
            /\ RLt(RZero, node.regret_sum[i])
            /\ RLt(node.regret_sum[j], RZero)
            /\ node.regret_sum[k] = RZero

\* C7: two reachable Kuhn decision states with the same acting player, the
\* same own card and the same action history (so differing at most in the
\* opponent's card) have equal information sets; Hash and Eq are derived
\* over the same fields, so equal values hash equal.
C7_KuhnIndistinguishable ==
    (game = "kuhn" /\ IsDecision("kuhn", state)) =>
        \A t \in KuhnStates :
            (/\ IsDecision("kuhn", t)
             /\ t.next_player_id = state.next_player_id
             /\ t.cards[t.next_player_id] = state.cards[state.next_player_id]
             /\ t.actions = state.actions)
            => KuhnToInfoSet(t) = KuhnToInfoSet(state)

\* A decision state that has a sibling differing in the opponent's card.
C7_Witness ==
    /\ game = "kuhn"
    /\ IsDecision("kuhn", state)
    /\ state.actions = Arr2("Pass", "Bet")
    /\ \E t \in KuhnStates :
            /\ IsDecision("kuhn", t)
            /\ t.next_player_id = state.next_player_id
            /\ t.cards[t.next_player_id] = state.cards[state.next_player_id]
            /\ t.actions = state.actions
            /\ t.cards # state.cards

\* C8: two reachable Leduc decision states with the same acting player's
\* hole card and the same betting history, differing only in the opponent's
\* hole card and, while the round is Preflop, the community card, have equal
\* information sets.
C8_LeducIndistinguishable ==
    (game = "leduc" /\ IsDecision("leduc", state)) =>
        \A t \in LeducStates :
            (/\ IsDecision("leduc", t)
             /\ t.hole_cards[1][t.next_player_id]
                    = state.hole_cards[1][state.next_player_id]
             /\ t.actions = state.actions
             /\ state.round # Preflop => t.community_card = state.community_card)
            => LeducToInfoSet(t) = LeducToInfoSet(state)

\* C9: get_payouts on a reachable terminal state of Kuhn, Leduc or Dudo
\* returns payouts summing to zero.
C9_ZeroSum ==
    (payouts.tag = "ok" /\ IsTerminal(game, state)) =>
        RAdd(payouts.v[0], payouts.v[1]) = RZero

\* get_payouts has returned [0, 0] for a Leduc showdown tie.
C9_Witness ==
    /\ game = "leduc"
    /\ state.round = ShowDown
    /\ payouts.tag = "ok"
    /\ payouts.v = Arr2(RZero, RZero)

\* C10: Kuhn's get_payouts fails fast on every reachable non-terminal state.
C10_KuhnPayoutsFailFast ==
    (game = "kuhn" /\ ~KuhnIsTerminal(state) /\ payouts.tag # "none") =>
        payouts.tag = "panic"

\* Information sets of player p and the pure strategies over them.
InfoSetsOf(p) == {i \in KuhnInfoSets : i.player_id = p}
PureStrategiesOf(p) == {[i \in InfoSetsOf(p) |-> OneHot(c[i], 2)] : c \in [InfoSetsOf(p) -> 1..2]}

\* The expected value player p obtains with strategy own against the
\* evaluated strategy.
ValueAgainstTable(p, own) ==
    IF p = 0
    THEN calc_expected_value(0, HashMapStrategy(own), table, EvalGame, NewRoot(EvalGame))
    ELSE calc_expected_value(1, table, HashMapStrategy(own), EvalGame, NewRoot(EvalGame))

\* C2: compute_exploitability returns a value >= 0 for every valid strategy
\* on Kuhn, and its final assert_ge never fires.
C2_ExploitabilityNonNegative ==
    /\ pc # "assert_failed"
    /\ pc = "done" => RGe(expl, RZero)

\* compute_exploitability has returned a positive value for a table that
\* is not the uniform one.
C2_Witness ==
    /\ pc = "done"
    /\ RLt(RZero, expl)
    /\ table.impl = "HashMap"
    /\ table.map # [i \in KuhnInfoSets |-> BetWith(<<1, 2>>)]

\* C3: for each player P the pure strategy derived from the best-response
\* pass is a best response to the evaluated strategy: its expected value
\* for P (ev_1 for player 0, ev_0 for player 1) is the value of the
\* best-response pass and is >= the expected value of every pure strategy
\* of P.
C3_BestResponse ==
    pc = "done" =>
        \A p \in Players :
            /\ ValueAgainstTable(p, pure[p]) = Ok(ev[1 - p])
            /\ br[p] = ev[1 - p]
            /\ \A alt \in PureStrategiesOf(p) :
                    LET v == ValueAgainstTable(p, alt)
                    IN  v.tag = "ok" /\ RLe(v.v, ev[1 - p])

\* A best response has been derived, against a table that never bets, that
\* does strictly better than some other pure strategy.
C3_Witness ==
    /\ pc = "done"
    /\ table = HashMapStrategy([i \in KuhnInfoSets |-> BetWith(RZero)])
    /\ \E p \in Players : \E alt \in PureStrategiesOf(p) :
            RLt(ValueAgainstTable(p, alt).v, ev[1 - p])

\* The keys present in a strategy.
KeysOf(st) == IF st.impl = "HashMap" THEN DOMAIN st.map ELSE DOMAIN st.nodes

\* C5: querying a strategy (a trainer or a raw table) for an information set
\* it does not hold is recoverable: get_strategy yields not-found or the
\* uniform distribution, safe_get_strategy yields the uniform distribution
\* of length actions_len, and neither aborts.
C5_UnvisitedRecoverable ==
    (query # <<>> /\ query.info_set \notin KeysOf(table)) =>
        /\ query.r.tag # "panic"
        /\ query.op = "get_strategy" =>
                query.r \in {None, Some(Fill(<<1, 2>>, 2))}
        /\ query.op = "safe_get_strategy" =>
                query.r = Ok(Fill(RDiv(ROne, R(query.actions_len)), query.actions_len))

\* The indices at which a utility vector attains its maximum.
MaxSet(utils) ==
    {i \in 1..Len(utils) : \A j \in 1..Len(utils) : RLe(utils[j], utils[i])}

Tied(utils) == Cardinality(MaxSet(utils)) > 1
FirstOf(S) == CHOOSE i \in S : \A j \in S : i <= j
LastOf(S) == CHOOSE i \in S : \A j \in S : j <= i

\* The Kuhn decision states that share an information set.
StatesOf(info_set) ==
    {s \in KuhnStates : IsDecision("kuhn", s) /\ KuhnToInfoSet(s) = info_set}

\* The best-response pass of player p, run at state s with the finished
\* action_utilities map.
BestResponseAt(p, s) ==
    calc_best_response_value(brmap[p], rp[p], p, table, EvalGame, s)

\* At every state of the information set the pass returns what it returns
\* after the pick-th action.
FollowsAt(p, info_set, pick) ==
    \A s \in StatesOf(info_set) :
        BestResponseAt(p, s)
            = BestResponseAt(p, WithAction(EvalGame, s,
                                           ListLegalActions(EvalGame, s)[pick]))

C11_LegalActionsNonEmpty ==
    (game # "none" /\ IsDecision(game, state)) =>
        Len(ListLegalActions(game, state)) > 0

\* A Dudo state where the claim cannot be raised and Dudo is the one legal
\* action.
C11_Witness ==
    /\ game = "dudo"
    /\ IsDecision("dudo", state)
    /\ ListLegalActions("dudo", state) = <<Dudo>>


RECURSIVE SumOver(_, _)
SumOver(f, S) ==
    IF S = {} THEN 0
    ELSE LET x == CHOOSE y \in S : TRUE IN f[x] + SumOver(f, S \ {x})

ActualCount(rolls, rank) ==
    SumOver(rolls[0], {rank, 0}) + SumOver(rolls[1], {rank, 0})

\* The step is a Dudo call.
IsDudoCall ==
    /\ game = "dudo"
    /\ IsDecision("dudo", state)
    /\ state.action_history # <<>>
    /\ state'.action_history = <<>>

\* C13: a Dudo call compares the dice showing the claimed rank over both
\* rolls (ones wild for every other rank) with the claimed count: when
\* actual >= claimed the challenger loses 1 die if equal and actual - claimed
\* if greater, otherwise the claimant loses claimed - actual, never going
\* below zero, and the other player's dice stay; a player left with zero dice
\* gets payout -1 and the other +1.
C13_DudoChallenge ==
    [][/\ IsDudoCall =>
            LET challenger == state.node_player_id
                claimant == 1 - challenger
                claim == state.action_history[Len(state.action_history)]
                actual == ActualCount(state.player_rolls, claim.rank)
                loser == IF actual >= claim.count THEN challenger ELSE claimant
                lost == IF actual = claim.count THEN 1
                        ELSE IF actual > claim.count THEN actual - claim.count
                        ELSE claim.count - actual
            IN  /\ state'.dice_count[loser] = Max(0, state.dice_count[loser] - lost)
                /\ state'.dice_count[1 - loser] = state.dice_count[1 - loser]
       /\ (game' = "dudo" /\ DudoIsTerminal(state') /\ payouts'.tag = "ok") =>
            \E i \in Players :
                /\ state'.dice_count[i] = 0
                /\ payouts'.v = [p \in Players |-> IF p = i THEN R(-1) ELSE R(1)]
      ]_vars

\* Player 1 has called Dudo, player 0, who had rolled a one, has lost the
\* last die, and the payouts were read.
C13_Witness ==
    /\ game = "dudo"
    /\ state.round = 1
    /\ state.node_player_id = 1
    /\ state.dice_count = Arr2(0, 1)
    /\ state.player_rolls[0][0] = 1
    /\ payouts.tag = "ok"
    /\ payouts.v = Arr2(R(-1), R(1))


Bets(s) == [i \in PlayerIds(s) |-> s.players[i].bet]

\* C14: in the hold'em dealer a RaiseTo(x) with min_raise_to <= x < stack
\* over the maximum bet m sets the actor's bet to x, adds one to bet_cnt and
\* sets min_raise_to to x + (x - m); Call sets the actor's bet to m and leaves
\* min_raise_to and bet_cnt alone; init_round for a post-flop round sets
\* bet_cnt to 0 and min_raise_to to the big blind plus the bet of the player
\* first to act, and changes no bet.
C14_BettingArithmetic ==
    [][/\ (/\ update_result'.op = "update"
           /\ update_result'.act.kind = "RaiseTo"
           /\ hand_state.round_state.min_raise_to <= update_result'.act.raise_to
           /\ update_result'.act.raise_to
                  < hand_state.players[hand_state.next_player].stack)
          => /\ hand_state'.players[hand_state.next_player].bet
                    = update_result'.act.raise_to
             /\ hand_state'.round_state.bet_cnt
                    = hand_state.round_state.bet_cnt + 1
             /\ hand_state'.round_state.min_raise_to
                    = update_result'.act.raise_to
                        + (update_result'.act.raise_to - max_bet(hand_state))
       /\ (update_result'.op = "update" /\ update_result'.act = Call)
          => /\ hand_state'.players[hand_state.next_player].bet
                    = max_bet(hand_state)
             /\ hand_state'.round_state = hand_state.round_state
       /\ (update_result'.op = "init_round" /\ hand_state'.round # "Preflop")
          => /\ hand_state'.round_state.bet_cnt = 0
             /\ hand_state'.round_state.min_raise_to
                    = get_big_blind(rule)
                        + hand_state.players[
                              rule.first_player[RoundAsUsize(hand_state'.round)]].bet
             /\ Bets(hand_state') = Bets(hand_state)]_vars

\* The flop has been initialised after a raise to 300, a re-raise to 500 and
\* a call before the flop.
C14_Witness ==
    /\ update_result.op = "init_round"
    /\ hand_state.round = "Flop"
    /\ hand_state.last_action = Some(Call)
    /\ Bets(hand_state) = [i \in 0..1 |-> 500]
    /\ hand_state.round_state = [min_raise_to |-> 600, bet_cnt |-> 0]


IsRaise(x) == update_result'.op = "update" /\ update_result'.act = RaiseTo(x)
Actor == hand_state.next_player
BetsWithinStacks ==
    \A i \in PlayerIds(hand_state) :
        hand_state.players[i].bet <= hand_state.players[i].stack

\* C15 as stated: a RaiseTo(x) with x below min_raise_to and below the
\* actor's stack leaves the actor's bet at min_raise_to, a RaiseTo(x) with x
\* at or above the actor's stack leaves it at the stack, and no bet ever
\* exceeds its player's stack.
C15_ClampedToMinRaise ==
    /\ [][\A x \in RaiseTos :
            IsRaise(x) =>
              /\ (x < hand_state.round_state.min_raise_to
                        /\ x < hand_state.players[Actor].stack)
                    => hand_state'.players[Actor].bet
                           = hand_state.round_state.min_raise_to
              /\ x >= hand_state.players[Actor].stack
                    => hand_state'.players[Actor].bet
                           = hand_state.players[Actor].stack]_vars
    /\ []BetsWithinStacks

\* C15, amended: the raise to min_raise_to that replaces a too low
\* RaiseTo(x) is itself capped at the actor's stack, so the actor's bet
\* becomes min_raise_to only when min_raise_to is below the stack and the
\* stack otherwise; a RaiseTo(x) with x at or above the stack leaves the bet
\* at the stack; no bet ever exceeds its player's stack.
C15_ClampedAndCapped ==
    /\ [][\A x \in RaiseTos :
            IsRaise(x) =>
              /\ (x < hand_state.round_state.min_raise_to
                        /\ x < hand_state.players[Actor].stack)
                    => hand_state'.players[Actor].bet
                           = IF hand_state.round_state.min_raise_to
                                    < hand_state.players[Actor].stack
                             THEN hand_state.round_state.min_raise_to
                             ELSE hand_state.players[Actor].stack
              /\ x >= hand_state.players[Actor].stack
                    => hand_state'.players[Actor].bet
                           = hand_state.players[Actor].stack]_vars
    /\ []BetsWithinStacks

\* A RaiseTo(0) has just left its actor all-in with 1000: min_raise_to was
\* above the stack.
C15_Witness ==
    /\ update_result.op = "update"
    /\ update_result.act = RaiseTo(0)
    /\ hand_state.players[1 - hand_state.next_player].bet = 1000
    /\ hand_state.players[1 - hand_state.next_player].stack = 1000
    /\ hand_state.players[hand_state.next_player].bet < 1000


Unfolded(s) == {i \in PlayerIds(s) : ~s.players[i].folded}
OneUnfolded(s) == Cardinality(Unfolded(s)) = 1
AllActedAndMatched(s) ==
    \A i \in Unfolded(s) :
        /\ s.players[i].took_action
        /\ \A j \in PlayerIds(s) : s.players[j].bet <= s.players[i].bet
AllBetWholeStack(s) ==
    \A i \in Unfolded(s) : s.players[i].bet = s.players[i].stack
RoundAfter(round) ==
    IF round = "Preflop" THEN "Flop" ELSE IF round = "Flop" THEN "Turn" ELSE "River"
ExpectedResult(s) ==
    IF OneUnfolded(s) \/ (s.round = "River" /\ AllActedAndMatched(s))
    THEN NextHand
    ELSE IF AllBetWholeStack(s) THEN AllIn
    ELSE IF AllActedAndMatched(s) THEN NextRound(RoundAfter(s.round))
    ELSE Keep
FreshPreflop(s) ==
    /\ s.round = "Preflop"
    /\ s.last_action = None
    /\ \A i \in PlayerIds(s) : ~s.players[i].took_action

\* C16: heads-up, Dealer::update returns NextHand when one player is left
\* unfolded or the River round is complete, otherwise AllIn when every
\* unfolded player has bet the whole stack, otherwise NextRound(round.next())
\* exactly when every unfolded player has acted in the round and matched the
\* maximum bet, otherwise Keep; the small blind's call on a fresh preflop
\* returns Keep and the big blind's call after it NextRound(Flop).
C16_UpdateResult ==
    [][update_result'.op = "update" =>
        /\ update_result'.v = Ok(ExpectedResult(hand_state'))
        /\ (FreshPreflop(hand_state) /\ update_result'.act = Call)
              => update_result'.v = Ok(Keep)
        /\ (/\ update_result.op = "update"
            /\ update_result.act = Call
            /\ hand_state.round = "Preflop"
            /\ hand_state.round_state.bet_cnt = 0
            /\ update_result'.act = Call)
              => update_result'.v = Ok(NextRound("Flop"))]_vars

\* The big blind has called after the small blind's call.
C16_Witness ==
    /\ update_result.op = "update"
    /\ update_result.act = Call
    /\ update_result.v = Ok(NextRound("Flop"))
    /\ hand_state.round = "Preflop"
    /\ hand_state.round_state.bet_cnt = 0
    /\ \A i \in PlayerIds(hand_state) : hand_state.players[i].took_action


\* The activation on top of the call stack is a decision node's, with every
\* action evaluated, and this step ends it.
DecisionVisitEnds ==
    /\ Running
    /\ Top.pc = "decision"
    /\ Top.i > Len(Top.actions)
    /\ Len(call_stack') < Len(call_stack)

\* sum_j strategy[j] * u_j[q] over the children's utility vectors u
StrategyWeighted(strategy, u, q) ==
    RSumSeq([j \in 1..Len(u) |-> RMul(strategy[j], u[j][q])])

\* C17: when exact CFR has evaluated every action of a decision node of
\* player P entered with reach r, regret_sum[i] grows by
\* r[opponent(P)] * (u_i[P] - sum_j strategy[j] * u_j[P]) for every action
\* i, u_j the utilities the child of action j returned, and the node returns
\* sum_j strategy[j] * u_j for both players; r[P] has no part in it.
C17_RegretUpdate ==
    [][DecisionVisitEnds =>
        /\ Len(Top.action_utils) = Len(Top.actions)
        /\ \A i \in 1..Len(Top.actions) :
              nodes'[ToInfoSet(TrainGame, Top.state)].regret_sum[i] =
                RAdd(nodes[ToInfoSet(TrainGame, Top.state)].regret_sum[i],
                     RMul(Top.actions_prob[Opponent(GetNodePlayerId(TrainGame, Top.state))],
                          RSub(Top.action_utils[i][GetNodePlayerId(TrainGame, Top.state)],
                               StrategyWeighted(Top.strategy, Top.action_utils,
                                   GetNodePlayerId(TrainGame, Top.state)))))
        /\ cfr_ret' = [q \in Players |->
                          StrategyWeighted(Top.strategy, Top.action_utils, q)]]_vars

\* A decision node entered with different reaches for the two players has
\* just returned to the decision node above it, its regrets updated.
C17_Witness ==
    /\ Running
    /\ cfr_ret # NoUtil
    /\ Top.pc = "decision_called"
    /\ IsDecision(TrainGame, WithAction(TrainGame, Top.state, Top.actions[Top.i]))
    /\ GetNodePlayerId(TrainGame, Top.state) = 0
    /\ RMul(Top.actions_prob[0], Top.strategy[Top.i]) # Top.actions_prob[1]
    /\ \E i \in 1..2 :
          nodes[ToInfoSet(TrainGame,
                    WithAction(TrainGame, Top.state, Top.actions[Top.i]))
               ].regret_sum[i] # RZero


\* The activation on top of the call stack has fetched the node of its
\* decision state, and this step takes it to the action loop.
DecisionVisitBegins ==
    /\ Running
    /\ Top.pc = "fetched"
    /\ Len(call_stack') = Len(call_stack)

\* A field of the node of info_set as the visit finds it; a node not yet in
\* the map is all zeros.
OnEntry(info_set, n, field) ==
    IF info_set \in DOMAIN nodes THEN nodes[info_set][field]
    ELSE [i \in 1..n |-> RZero]

\* Regret matching: the positive parts of the regrets over their sum, or
\* the uniform distribution when no regret is positive.
RegretMatched(regret_sum) ==
    IF \A i \in DOMAIN regret_sum : RLe(regret_sum[i], RZero)
    THEN [i \in DOMAIN regret_sum |-> <<1, Len(regret_sum)>>]
    ELSE [i \in DOMAIN regret_sum |->
            RDiv(RPos(regret_sum[i]),
                 RSumSeq([j \in DOMAIN regret_sum |-> RPos(regret_sum[j])]))]

StrategySumsNonNegative ==
    \A k \in DOMAIN nodes :
        \A i \in DOMAIN nodes[k].strategy_sum : RLe(RZero, nodes[k].strategy_sum[i])

\* C18: a visit of exact CFR to a decision node of player P with reach r
\* adds r[P] * strategy[i] to strategy_sum[i] for every action i, strategy
\* being regret matching on regret_sum as the visit found it, and it is
\* that strategy the visit goes on with; strategy_sum entries are never
\* negative and never decrease.
C18_StrategySum ==
    /\ [][/\ DecisionVisitBegins =>
               /\ Top'.strategy =
                      RegretMatched(OnEntry(ToInfoSet(TrainGame, Top.state),
                          Len(ListLegalActions(TrainGame, Top.state)), "regret_sum"))
               /\ \A i \in 1..Len(ListLegalActions(TrainGame, Top.state)) :
                     nodes'[ToInfoSet(TrainGame, Top.state)].strategy_sum[i] =
                       RAdd(OnEntry(ToInfoSet(TrainGame, Top.state),
                                Len(ListLegalActions(TrainGame, Top.state)),
                                "strategy_sum")[i],
                            RMul(Top.actions_prob[GetNodePlayerId(TrainGame, Top.state)],
                                 Top'.strategy[i]))
          /\ \A k \in DOMAIN nodes :
                /\ k \in DOMAIN nodes'
                /\ \A i \in DOMAIN nodes[k].strategy_sum :
                      RLe(nodes[k].strategy_sum[i], nodes'[k].strategy_sum[i])]_vars
    /\ []StrategySumsNonNegative

\* A decision node with regrets from earlier visits, one of them negative
\* and one positive, has just been entered in the second iteration.
C18_Witness ==
    /\ Running
    /\ iteration = 1
    /\ Top.pc = "decision"
    /\ Top.i = 1
    /\ Top.strategy = <<RZero, ROne>>
    /\ \E i \in 1..2 : RLt(nodes[Top.info_set].regret_sum[i], RZero)
    /\ RLt(RZero, nodes[Top.info_set].strategy_sum[1])


\* This step is a recursive call made by the activation on top of the stack.
CfrCalls == Running /\ Len(call_stack') = Len(call_stack) + 1
\* This step takes the utilities a child returned into its parent's node_util.
CfrResumes ==
    /\ Running
    /\ cfr_ret # NoUtil
    /\ Len(call_stack') = Len(call_stack)
IsChanceNode(s) == ~IsTerminal(TrainGame, s) /\ GetNodePlayerId(TrainGame, s) = Chance
ChanceProb(f) == ListLegalChanceActions(TrainGame, f.state)[f.i][2]
ChanceAct(f) == ListLegalChanceActions(TrainGame, f.state)[f.i][1]

\* C19: exact CFR enters each child of a chance node with both players'
\* reach entries multiplied by the chance action's probability and weights
\* the child's utilities by the same probability; it enters the child for
\* action i of a decision node of player P with reach[P] multiplied by
\* strategy[i] and the opponent's entry as it was.
C19_ReachPropagation ==
    [][/\ (CfrCalls /\ IsChanceNode(Top.state)) =>
            /\ Top'.state = WithAction(TrainGame, Top.state, ChanceAct(Top))
            /\ \A p \in Players :
                  Top'.actions_prob[p] = RMul(Top.actions_prob[p], ChanceProb(Top))
       /\ (CfrResumes /\ IsChanceNode(Top.state)) =>
            \A p \in Players :
                Top'.node_util[p] =
                    RAdd(Top.node_util[p], RMul(ChanceProb(Top), cfr_ret[p]))
       /\ (CfrCalls /\ IsDecision(TrainGame, Top.state)) =>
            /\ Top'.state = WithAction(TrainGame, Top.state,
                                ListLegalActions(TrainGame, Top.state)[Top.i])
            /\ Top'.actions_prob[GetNodePlayerId(TrainGame, Top.state)] =
                  RMul(Top.actions_prob[GetNodePlayerId(TrainGame, Top.state)],
                       Top.strategy[Top.i])
            /\ Top'.actions_prob[Opponent(GetNodePlayerId(TrainGame, Top.state))] =
                  Top.actions_prob[Opponent(GetNodePlayerId(TrainGame, Top.state))]]_vars

\* A decision node of player 1 below a chance node has just been entered
\* for an action of player 0 played with probability below one.
C19_Witness ==
    /\ Len(call_stack) = 3
    /\ call_stack[1].pc = "chance_called"
    /\ call_stack[2].pc = "decision_called"
    /\ Top.pc = "enter"
    /\ Top.actions_prob[1] = call_stack[2].actions_prob[1]
    /\ Top.actions_prob[1] = <<1, 6>>
    /\ RLt(Top.actions_prob[0], call_stack[2].actions_prob[0])
    /\ RLt(RZero, Top.actions_prob[0])


\* The information sets of the decision states with_action reaches from
\* new_root over legal actions.
ReachableInfoSets ==
    {ToInfoSet(TrainGame, s) :
        s \in {t \in ReachFrom(TrainGame, {}, {NewRoot(TrainGame)}) :
                  IsDecision(TrainGame, t)}}

\* The first cfr call of a new trainer has returned and no second one has
\* begun.
FirstIterationDone ==
    /\ ~Running
    /\ \/ iteration = 0 /\ cfr_ret # NoUtil
       \/ iteration = 1

\* C20: after one exact-CFR iteration from new_root with reach [1, 1] on an
\* empty trainer the node map has a node for the information set of every
\* decision state reachable by legal actions, the states behind actions of
\* probability zero included; for Kuhn these are 12 information sets.
C20_AllInfoSetsAfterOneIteration ==
    FirstIterationDone =>
        /\ DOMAIN nodes = ReachableInfoSets
        /\ Cardinality(DOMAIN nodes) = 12

\* The first iteration has returned, and the strategy some node played on
\* its last visit gave probability zero to one of its actions.
C20_Witness ==
    /\ ~Running
    /\ iteration = 0
    /\ cfr_ret # NoUtil
    /\ \E k \in DOMAIN nodes :
          \E i \in DOMAIN nodes[k].strategy : nodes[k].strategy[i] = RZero


\* Every node of m is still in m2 with its action list.
MapOnlyGrows(m, m2) ==
    \A k \in DOMAIN m : k \in DOMAIN m2 /\ m2[k].actions = m[k].actions

\* n is what Node::new makes for state s of game g.
FreshNode(n, g, s) ==
    /\ n.actions = ListLegalActions(g, s)
    /\ \A i \in DOMAIN n.regret_sum : n.regret_sum[i] = RZero
    /\ \A i \in DOMAIN n.strategy_sum : n.strategy_sum[i] = RZero

\* The vectors of every node of m are as long as its action list.
LengthsAgree(m) ==
    \A k \in DOMAIN m :
        /\ Len(m[k].regret_sum) = Len(m[k].actions)
        /\ Len(m[k].strategy) = Len(m[k].actions)
        /\ Len(m[k].strategy_sum) = Len(m[k].actions)

\* A visit of decision state s of game g fetches its node: the map m keeps
\* every node as it is and gains at most the fresh node of s.
FetchKeeps(m, m2, g, s) ==
    /\ ToInfoSet(g, s) \in DOMAIN m2
    /\ \A k \in DOMAIN m : k \in DOMAIN m2 /\ m2[k] = m[k]
    /\ \A k \in DOMAIN m2 \ DOMAIN m :
          k = ToInfoSet(g, s) /\ FreshNode(m2[k], g, s)

CfrFetches == Running /\ Top.pc = "enter" /\ IsDecision(TrainGame, Top.state)
McFetches == McRunning /\ McTop.pc = "enter" /\ IsDecision(SamplingGame, McTop.state)

\* C21: in both trainers the node map only grows.  The visit of a decision
\* state leaves every node in the map as it is and, when the information
\* set has no node yet, inserts one with zero regret_sum and strategy_sum
\* and the legal actions of the visiting state; no other step adds a node;
\* no step removes a node or changes its action list; and regret_sum,
\* strategy and strategy_sum are always as long as the action list.
C21_NodeMapOnlyGrows ==
    /\ [][/\ MapOnlyGrows(nodes, nodes') /\ MapOnlyGrows(mc_nodes, mc_nodes')
          /\ (CfrFetches => FetchKeeps(nodes, nodes', TrainGame, Top.state))
          /\ (McFetches => FetchKeeps(mc_nodes, mc_nodes', SamplingGame, McTop.state))
          /\ (~CfrFetches => DOMAIN nodes' = DOMAIN nodes)
          /\ (~McFetches => DOMAIN mc_nodes' = DOMAIN mc_nodes)]_vars
    /\ [](LengthsAgree(nodes) /\ LengthsAgree(mc_nodes))

\* The MCCFR trainer has just created a node while the map holds a node
\* with regrets from an earlier visit.
C21_Witness ==
    /\ solver = "MccfrExternalSampling"
    /\ McRunning
    /\ McTop.pc = "fetching"
    /\ FreshNode(mc_nodes[McTop.info_set], SamplingGame, McTop.state)
    /\ \E k \in DOMAIN mc_nodes : \E i \in DOMAIN mc_nodes[k].regret_sum :
          mc_nodes[k].regret_sum[i] # RZero


\* The activation on top of the sampling stack is at a decision node of
\* the traverser (AtTraverser) or of the other player (AtOpponent).
AtTraverser ==
    /\ McRunning
    /\ IsDecision(SamplingGame, McTop.state)
    /\ McPlayer = McTop.traverser_id

AtOpponent ==
    /\ McRunning
    /\ IsDecision(SamplingGame, McTop.state)
    /\ McPlayer # McTop.traverser_id

\* sum_i strategy[i] * act_utils[i]
WeightedUtil(strategy, act_utils) ==
    RSumSeq([i \in DOMAIN act_utils |-> RMul(strategy[i], act_utils[i])])

\* The step copies the strategy out of the node of the top activation.
ReadsStrategy == McRunning /\ McTop.pc = "fetched" /\ McTop'.pc = "reading"

\* The step is a recursive call (the stack grows) or its return.
SamplingCalls == McRunning /\ Len(mc_stack') = Len(mc_stack) + 1
SamplingReturns == Len(mc_stack) >= 2 /\ Len(mc_stack') = Len(mc_stack) - 1

\* The node of the top activation, once it has been fetched.
McNode == mc_nodes[McTop.info_set]

\* C22: at a decision node of the traverser, sampling reads the
\* regret-matched strategy of the node before recursing, recurses into
\* the legal actions one after the other, each once, and then, with
\* util = sum_i strategy[i] * act_utils[i], adds act_utils[i] - util to
\* regret_sum[i] without any reach weight and returns util; no step of the
\* visit changes the node's strategy_sum.
C22_TraverserNode ==
    [][AtTraverser =>
        /\ ReadsStrategy =>
              McTop'.strategy = RegretMatched(McNode.regret_sum)
        /\ SamplingCalls =>
              /\ McTop.i = Len(McTop.act_utils) + 1
              /\ McTop.i <= Len(ListLegalActions(SamplingGame, McTop.state))
              /\ McTop'.state = WithAction(SamplingGame, McTop.state,
                      ListLegalActions(SamplingGame, McTop.state)[McTop.i])
              /\ McTop'.traverser_id = McTop.traverser_id
              /\ borrows = {}
        /\ McTop.pc = "traverser_call" =>
              /\ McTop'.act_utils = Append(McTop.act_utils, mc_ret)
              /\ McTop'.i = McTop.i + 1
              /\ McTop'.strategy = McTop.strategy
        /\ (McTop.pc = "traverser" /\ ~SamplingCalls) =>
              /\ Len(McTop.act_utils) = Len(ListLegalActions(SamplingGame, McTop.state))
              /\ McTop.strategy = RegretMatched(McNode.regret_sum)
              /\ McTop.util = WeightedUtil(McTop.strategy, McTop.act_utils)
              /\ \A i \in DOMAIN McTop.act_utils :
                    mc_nodes'[McTop.info_set].regret_sum[i] =
                        RAdd(McNode.regret_sum[i],
                             RSub(McTop.act_utils[i], McTop.util))
              /\ McTop'.util = McTop.util
        /\ McTop.pc = "updated" => mc_ret' = McTop.util
        /\ McTop.pc # "enter" =>
              mc_nodes'[McTop.info_set].strategy_sum = McNode.strategy_sum
        /\ (McTop.pc = "enter"
              /\ ToInfoSet(SamplingGame, McTop.state) \in DOMAIN mc_nodes) =>
              mc_nodes' = mc_nodes]_vars

\* A traverser node that played a non-uniform strategy over actions of
\* different value has just updated its regrets.
C22_Witness ==
    /\ AtTraverser
    /\ McTop.pc = "updated"
    /\ McTop.strategy[1] # McTop.strategy[2]
    /\ McTop.act_utils[1] # McTop.act_utils[2]
    /\ McTop.util # RZero


\* C23: at a decision node of the player who is not the traverser,
\* sampling reads the regret-matched strategy, recurses once, into an
\* action that the strategy plays with positive probability, then adds
\* strategy[i] to strategy_sum[i] for every action i and returns the value
\* of the one call; the node's regret_sum stays as it was, and no other
\* step of sampling changes the strategy_sum of a node.
C23_OpponentNode ==
    [][/\ AtOpponent =>
            /\ ReadsStrategy =>
                  McTop'.strategy = RegretMatched(McNode.regret_sum)
            /\ SamplingCalls =>
                  /\ McTop.pc = "opponent"
                  /\ mc_stack'[Len(mc_stack)].pc = "opponent_call"
                  /\ \E i \in DOMAIN McTop.strategy :
                        /\ RLt(RZero, McTop.strategy[i])
                        /\ McTop'.state = WithAction(SamplingGame, McTop.state,
                                ListLegalActions(SamplingGame, McTop.state)[i])
                  /\ McTop'.traverser_id = McTop.traverser_id
            /\ McTop.pc = "opponent_call" =>
                  /\ ~SamplingCalls
                  /\ Len(McTop.strategy) = Len(ListLegalActions(SamplingGame, McTop.state))
                  /\ \A i \in DOMAIN McTop.strategy :
                        mc_nodes'[McTop.info_set].strategy_sum[i] =
                            RAdd(McNode.strategy_sum[i], McTop.strategy[i])
                  /\ McTop'.util = mc_ret
            /\ McTop.pc = "updated" => mc_ret' = McTop.util
            /\ McTop.pc # "enter" =>
                  mc_nodes'[McTop.info_set].regret_sum = McNode.regret_sum
       /\ \A k \in DOMAIN mc_nodes :
            mc_nodes'[k].strategy_sum # mc_nodes[k].strategy_sum =>
                AtOpponent /\ McTop.pc = "opponent_call" /\ k = McTop.info_set]_vars

\* A node of the other player that holds regrets of its own, so that its
\* strategy is not uniform, has just added that strategy to strategy_sum.
C23_Witness ==
    /\ AtOpponent
    /\ McTop.pc = "updated"
    /\ McTop.strategy[1] # McTop.strategy[2]
    /\ McNode.strategy_sum = McTop.strategy
    /\ McTop.util # RZero


\* The borrows the activation on top of the stack holds at its pc: the
\* map mutably during the fetch, the node shared while its actions and
\* strategy are copied, the node mutably from the update to the return.
ExpectedBorrows ==
    IF ~McRunning THEN {}
    ELSE CASE McTop.pc = "fetching" ->
                {[cell |-> NodesCell, kind |-> "mut", depth |-> McDepth]}
           [] McTop.pc = "reading" ->
                {[cell |-> NodeCell(McTop.info_set), kind |-> "shared",
                  depth |-> McDepth]}
           [] McTop.pc = "updated" ->
                {[cell |-> NodeCell(McTop.info_set), kind |-> "mut",
                  depth |-> McDepth]}
           [] OTHER -> {}

\* The activations that wait for a recursive call to return.
Waiting == 1..(Len(mc_stack) - 1)

\* C24: during MCCFR sampling no RefCell borrow is held across a
\* recursive call.  Every borrow belongs to the running activation, never
\* to one that waits for a call to return: the map is borrowed only for
\* the fetch-or-create, the node is borrowed shared only while its
\* actions and strategy are copied and mutably only after the recursion
\* below it has returned; no borrow ever conflicts (no BorrowMutError).
C24_NoBorrowAcrossCalls ==
    /\ borrows = ExpectedBorrows
    /\ \A d \in Waiting :
          /\ mc_stack[d].pc \in {"chance", "traverser_call", "opponent_call"}
          /\ \A b \in borrows : b.depth # d
    /\ \A d \in 1..Len(mc_stack) : mc_stack[d].pc # "panicked"

\* In a later traversal, three or more activations deep below a chance
\* node and a decision node that wait for their calls, a node is
\* re-borrowed mutably for its update.
C24_Witness ==
    /\ Len(mc_stack) >= 3
    /\ McTop.pc = "updated"
    /\ samplings >= 1
    /\ \E b \in borrows : b.kind = "mut" /\ b.cell = NodeCell(McTop.info_set)
    /\ mc_stack[Len(mc_stack) - 1].pc \in {"traverser_call", "opponent_call"}


\* The moves at a state of the evaluated game that is not terminal, in
\* the order the code lists them, and the edges <<state, index, successor>>
\* of the game tree.
EvalMoves(q) ==
    IF GetNodePlayerId(EvalGame, q) = Chance
    THEN [k \in DOMAIN ListLegalChanceActions(EvalGame, q) |->
            ListLegalChanceActions(EvalGame, q)[k][1]]
    ELSE ListLegalActions(EvalGame, q)

EvalEdges ==
    UNION {{<<q, k, WithAction(EvalGame, q, EvalMoves(q)[k])>> :
                k \in DOMAIN EvalMoves(q)} :
           q \in {t \in KuhnStates : ~IsTerminal(EvalGame, t)}}

\* What edge e contributes to the reach weight for best responder p:
\* the chance probability, 1 for an action of p, the evaluated strategy's
\* probability for an action of the opponent.
EdgeFactor(p, e) ==
    IF GetNodePlayerId(EvalGame, e[1]) = Chance
    THEN ListLegalChanceActions(EvalGame, e[1])[e[2]][2]
    ELSE IF GetNodePlayerId(EvalGame, e[1]) = p THEN ROne
    ELSE safe_get_strategy(table, Len(EvalMoves(e[1])),
                           ToInfoSet(EvalGame, e[1])).v[e[2]]

RECURSIVE PathWeight(_, _)
RECURSIVE SumPathWeights(_, _)

\* The sum, over the edges of es, of the weight of the edge's source times
\* the factor of the edge.
SumPathWeights(p, es) ==
    IF es = {} THEN RZero
    ELSE RAdd(RMul(PathWeight(p, (CHOOSE e \in es : TRUE)[1]),
                   EdgeFactor(p, CHOOSE e \in es : TRUE)),
              SumPathWeights(p, es \ {CHOOSE e \in es : TRUE}))

\* The reach weight of state s for best responder p: 1 at the root,
\* otherwise summed over the edges that lead into s.
PathWeight(p, s) ==
    IF s = NewRoot(EvalGame) THEN ROne
    ELSE SumPathWeights(p, {e \in EvalEdges : e[3] = s})

\* The decision states of player p.
DecisionStatesOf(p) ==
    {s \in KuhnStates : IsDecision(EvalGame, s) /\ GetNodePlayerId(EvalGame, s) = p}

BrValueAt(s) ==
    calc_best_response_value(action_utilities, rp[responder], responder, table,
                             EvalGame, s).v

\* The sum over the states S of information set info_set of the state's
\* reach weight times the value of taking action act there.
RECURSIVE SiblingSum(_, _, _)
SiblingSum(info_set, act, S) ==
    IF S = {} THEN RZero
    ELSE RAdd(RMul(rp[responder][info_set][CHOOSE s \in S : TRUE],
                   BrValueAt(WithAction(EvalGame, CHOOSE s \in S : TRUE, act))),
              SiblingSum(info_set, act, S \ {CHOOSE s \in S : TRUE}))

\* The states of the best responder that share info_set.
StatesSharing(info_set) ==
    {s \in DecisionStatesOf(responder) : ToInfoSet(EvalGame, s) = info_set}

\* The activation on top of the stack enters a node of the best responder.
BrVisits ==
    /\ BrRunning
    /\ BrTop.pc = "enter"
    /\ IsDecision(EvalGame, BrTop.state)
    /\ BrNodePlayer = responder

\* The step stores the action utilities of an information set.
BrStores ==
    /\ BrRunning
    /\ BrTop.pc = "acts"
    /\ BrTop'.pc = "play"

\* C26: in the best-response pass the action utilities of an information
\* set are computed at the first visit to one of its states and only
\* then: a visit that finds them cached goes straight to playing; they are
\* stored once, for each action the sum over all states sharing the
\* information set of reach weight times the value of taking the action
\* there; a stored entry is never changed or removed; and the action
\* followed at a state is the one max_index picks from the entry of its
\* information set, so it is the same at every state sharing it.
C26_ActionUtilitiesOnce ==
    /\ [][/\ \A k \in DOMAIN action_utilities :
                k \in DOMAIN action_utilities'
                    /\ action_utilities'[k] = action_utilities[k]
          /\ BrVisits =>
                BrTop'.pc = IF ToInfoSet(EvalGame, BrTop.state)
                                   \in DOMAIN action_utilities
                            THEN "play" ELSE "acts"
          /\ BrStores =>
                /\ BrTop.info_set = ToInfoSet(EvalGame, BrTop.state)
                /\ BrTop.info_set \notin DOMAIN action_utilities
                /\ DOMAIN action_utilities' =
                       DOMAIN action_utilities \cup {BrTop.info_set}
                /\ \A a \in DOMAIN BrTop.actions :
                      action_utilities'[BrTop.info_set][a] =
                          SiblingSum(BrTop.info_set, BrTop.actions[a],
                                     StatesSharing(BrTop.info_set))
          /\ ~BrStores => DOMAIN action_utilities' = DOMAIN action_utilities
          /\ (BrRunning /\ BrTop.pc = "play") =>
                BrTop'.state = WithAction(EvalGame, BrTop.state,
                    ListLegalActions(EvalGame, BrTop.state)[
                        max_index(action_utilities[BrTop.info_set])])]_vars
    /\ [](\A d \in DOMAIN br_stack :
            br_stack[d].pc = "play_call" =>
                br_stack[d].best_action_index =
                    max_index(action_utilities[br_stack[d].info_set]))

\* A state is visited whose information set already has its action
\* utilities, two different values, from the visit to another state.
C26_Witness ==
    /\ BrRunning
    /\ BrTop.pc = "play"
    /\ BrTop.act_i = 1
    /\ BrTop.info_set \in DOMAIN action_utilities
    /\ action_utilities[BrTop.info_set][1] # action_utilities[BrTop.info_set][2]


\* C29: for each player P the value the best-response pass returns from
\* the root is the expected value for P of the one-hot pure strategy
\* derived from the cached action utilities against the evaluated
\* strategy, and the exploitability returned is the mean of the two
\* best-response values.
C29_BestResponseValueIsExpectedValue ==
    pc = "done" =>
        /\ \A p \in Players :
              ValueAgainstTable(p, best_response_utils_to_pure_strategy(brmap[p]))
                  = Ok(br[p])
        /\ expl = RDiv(RAdd(br[0], br[1]), R(2))

\* compute_exploitability has returned for a strategy that the two best
\* responses exploit by different amounts.
C29_Witness ==
    /\ pc = "done"
    /\ br[0] # br[1]
    /\ RLt(RZero, br[0]) /\ RLt(RZero, br[1])
    /\ expl = RDiv(RAdd(br[0], br[1]), R(2))


\* C27: every average game value the training loops log, periodic or
\* final, is the sum of the epoch values divided by the number of epochs
\* that have run: the divisor is the number of train_one_epoch / cfr calls
\* that have returned.
C27_AverageOverEpochsRun ==
    report # <<>> =>
        /\ report.divisor = epochs_run
        /\ report.value = Ok(RDiv(R(loop_util), R(epochs_run)))

\* The timed loop stops only between epochs: the test of the duration
\* follows a completed train_one_epoch call.
EpochInFlightCompletes ==
    (loop_kind = "duration" /\ loop_pc \in {"finished", "done"}) =>
        epochs_run >= 1 /\ epochs_run = loop_i + 1


\* The number of actions the claimed longest play of each game has.
LongestPlay ==
    [g \in {"kuhn", "leduc", "dudo"} |->
        CASE g = "kuhn" -> 4 [] g = "leduc" -> 9 [] g = "dudo" -> 14]

\* C28: a play from new_root by legal chance and player actions is over
\* after at most 4 actions in Kuhn, 9 in Leduc and 14 in Dudo with one die
\* each: no state is further from the root, and a state that far is
\* terminal.
C28_BoundedPlays ==
    /\ plies <= LongestPlay[game]
    /\ plies = LongestPlay[game] => IsTerminal(game, state)

\* A play of each length claimed to be the longest has ended.
C28_Witness ==
    /\ game = "dudo"
    /\ plies = LongestPlay[game]
    /\ IsTerminal(game, state)


\* A state at which a player is to act.
DudoDecision ==
    /\ game = "dudo"
    /\ ~DudoIsTerminal(state)
    /\ DudoGetNodePlayerId(state) # Chance

\* The face the player to act has rolled.
OwnDie == DudoFirstDie(state.player_rolls[state.node_player_id])[1]

\* The k-th of the six 5-bit fields of a 30-bit number, the first on top.
Field(x, k) == (x \div (2 ^ (ClaimBits * (6 - k)))) % (2 ^ ClaimBits)

\* The twelve 5-bit fields of the top 60 bits of uid.
ClaimFields(uid) ==
    [k \in 1..UidClaims |->
        IF k <= 6
        THEN Field(uid[1] * (2 ^ (LimbBits - TopBits))
                    + (uid[2] \div (2 ^ TopBits)), k)
        ELSE Field((uid[2] % (2 ^ TopBits)) * (2 ^ (LimbBits - TopBits))
                    + (uid[3] \div (2 ^ TopBits)), k - 6)]

\* The claims the fields say, up to the first empty field.
ClaimsOf(fields) ==
    [k \in 1..Cardinality({j \in 1..UidClaims : fields[j] # 0}) |->
        Claim(fields[k] \div 8, fields[k] % 8)]

\* What uid says: the claims, the die (3 bits) and the round (the last bit).
Unpacked(uid) ==
    <<ClaimsOf(ClaimFields(uid)),
      (uid[3] % (2 ^ (DieBits + RoundBits))) \div (2 ^ RoundBits),
      uid[3] % (2 ^ RoundBits)>>

\* list_legal_actions offers no action twice, Dudo only against a standing
\* claim, and only claims with a count from 1 to count_max that are
\* greater than the standing claim.
LegalOffer(actions, count_max, last_claim) ==
    /\ \A i, j \in DOMAIN actions : actions[i] = actions[j] => i = j
    /\ \A i \in DOMAIN actions :
        /\ actions[i].kind = "Dudo" => last_claim # <<>>
        /\ actions[i].kind = "Claim" =>
            /\ actions[i].count \in 1..count_max
            /\ last_claim # <<>> => ClaimGt(actions[i], last_claim[1])

\* The conversion passes its assertions and its uid says these claims, die
\* and round.
UidTells(info_set, action_history, die, round) ==
    /\ info_set # Panic
    /\ Unpacked(info_set.uid) = <<action_history, die, round>>

\* C30: at every reachable decision state of Dudo with one die each,
\* list_legal_actions offers no action twice, offers Dudo only when a claim
\* stands, and offers only claims with a count between 1 and the number of
\* dice that are greater than the standing claim; the claim history is
\* strictly increasing and at most 12 long; the conversion to DudoInfoSet
\* passes all its assertions, and its uid determines the history, the own
\* die and the round.
C30_DudoClaimsAndUid ==
    DudoDecision =>
        /\ LegalOffer(DudoListLegalActions(state),
                      state.dice_count[0] + state.dice_count[1],
                      DudoCurrentClaim(state))
        /\ \A i \in 1..(Len(state.action_history) - 1) :
                ClaimGt(state.action_history[i + 1], state.action_history[i])
        /\ Len(state.action_history) <= 12
        /\ UidTells(DudoToInfoSet(state), state.action_history, OwnDie,
                    state.round)

\* The player to act faces all twelve claims, and the conversion of that
\* state reaches into the top bits of uid.
C30_Witness ==
    /\ DudoDecision
    /\ Len(state.action_history) = 12
    /\ DudoToInfoSet(state) # Panic
    /\ DudoToInfoSet(state).uid[1] > 0
    /\ Dudo \in Range(DudoListLegalActions(state))

====
